---- MODULE Spec2Model ----
(***************************************************************************)
(* The simulation core of globalTrader-Company: the per-day tick and the   *)
(* player action handlers of the two App components held in                *)
(* src/unnamed/part_002 (lines 97-669: the App with a pause button and a   *)
(* sell-facility action; lines 672-1203: the App without them).            *)
(*                                                                         *)
(* Numbers.  The program computes in IEEE doubles.  Here money and prices  *)
(* are integers counting 1/Scale of a dollar, and every product with a     *)
(* fraction is floored to that grid (MulDiv).  A draw of Math.random() is  *)
(* an integer u in 0..RandDen-1 standing for u/RandDen.  Tax rates count   *)
(* 1/RateDen.  The three quantities the program floors to whole dollars    *)
(* after a double multiplication (upgrade cost, daily cost, sell refund)   *)
(* are tabulated with the values the double arithmetic yields.             *)
(***************************************************************************)
EXTENDS Integers, Sequences, FiniteSets, TLC

VARIABLES
  variant,            \* "pause": App of lines 97-669; "nopause": App of lines 672-1203
  gameState,          \* useState<GameState>
  isGameOver,         \* useState(false)
  isPaused,           \* useState(false), App with pause only
  repayAmount,        \* useState(0): the value of the repayment slider
  cyclePurchasesRef,  \* useRef(0)
  cycleSalesRef,      \* useRef(0)
  cycleProductionRef, \* useRef(0)
  clicks              \* number of player events dispatched so far (exploration bound)

vars == << variant, gameState, isGameOver, isPaused, repayAmount,
           cyclePurchasesRef, cycleSalesRef, cycleProductionRef, clicks >>

-----------------------------------------------------------------------------
(* Units and arithmetic *)

Scale == 10 * 10 * 10

RandDen == 10 * 10 * 10

RateDen == 10 * Scale

Max(a, b) == IF a >= b THEN a ELSE b

Min(a, b) == IF a <= b THEN a ELSE b

Abs(a) == IF a >= 0 THEN a ELSE 0 - a

\* floor(x * num / den) for den > 0, without forming x * num.
MulDiv(x, num, den) == (x \div den) * num + ((x % den) * num) \div den

-----------------------------------------------------------------------------
(* Catalog and constants *)

\* volatility in hundredths
COMMODITIES == <<
  [id |-> "oil",   category |-> "Energy",      basePrice |-> 80,   volatility |-> 15, productionCost |-> 50,   productionYield |-> 10],
  [id |-> "gas",   category |-> "Energy",      basePrice |-> 4,    volatility |-> 25, productionCost |-> 2,    productionYield |-> 50],
  [id |-> "gold",  category |-> "Metal",       basePrice |-> 2000, volatility |-> 5,  productionCost |-> 1500, productionYield |-> 1],
  [id |-> "steel", category |-> "Metal",       basePrice |-> 600,  volatility |-> 10, productionCost |-> 400,  productionYield |-> 5],
  [id |-> "wheat", category |-> "Agriculture", basePrice |-> 250,  volatility |-> 12, productionCost |-> 150,  productionYield |-> 20],
  [id |-> "corn",  category |-> "Agriculture", basePrice |-> 180,  volatility |-> 10, productionCost |-> 100,  productionYield |-> 25],
  [id |-> "beef",  category |-> "Livestock",   basePrice |-> 450,  volatility |-> 8,  productionCost |-> 300,  productionYield |-> 8],
  [id |-> "pork",  category |-> "Livestock",   basePrice |-> 320,  volatility |-> 9,  productionCost |-> 200,  productionYield |-> 12] >>

Ids == { COMMODITIES[i].id : i \in 1..Len(COMMODITIES) }

\* COMMODITIES.find(c => c.id === id)!
Commodity(id) == COMMODITIES[CHOOSE i \in 1..Len(COMMODITIES) : COMMODITIES[i].id = id]

INITIAL_CASH == 5000

\* thousandths per day
DAILY_INTEREST_RATE == 15

TAX_CYCLE == 30

\* in 1/RateDen
INITIAL_TAX_RATE == IF variant = "pause" THEN 1500 ELSE 2000

\* .slice(-20)
HistoryCap == 20

\* multiplier in tenths
EVENTS_POOL == <<
  [name |-> "OPEC Production Cut",        category |-> "Energy",      multiplier |-> 21],
  [name |-> "Global Drought",             category |-> "Agriculture", multiplier |-> 18],
  [name |-> "Financial Safe Haven",       category |-> "Metal",       multiplier |-> 16],
  [name |-> "Livestock Epidemic",         category |-> "Livestock",   multiplier |-> 23],
  [name |-> "Technological Breakthrough", category |-> "ALL",         multiplier |-> 5],
  [name |-> "Trade War Escalation",       category |-> "Metal",       multiplier |-> 6],
  [name |-> "Energy Discovery",           category |-> "Energy",      multiplier |-> 4] >>

\* activeEvent: null
NoEvent == [null |-> TRUE]

\* the loan buttons
LoanMenu == IF variant = "pause" THEN {5000, 10000, 25000} ELSE {5000, 10000, 20000}

\* netEquity < -1000 (App with pause), netEquity < 0 (App without pause)
Threshold == IF variant = "pause" THEN (0 - 1000) * Scale ELSE 0

-----------------------------------------------------------------------------
(* Facility cost figures, in whole dollars, as the double arithmetic of the  *)
(* program yields them (entry L of a row is the value at level L).           *)

\* Math.floor(basePrice * 25 * Math.pow(1.8, L))
UpgradeCostTable ==
     "oil"   :> << 3600, 6480, 11664, 20995, 37791, 68024, 122444, 220399, 396718, 714093, 1285368, 2313662 >>
  @@ "gas"   :> << 180, 324, 583, 1049, 1889, 3401, 6122, 11019, 19835, 35704, 64268, 115683 >>
  @@ "gold"  :> << 90000, 162000, 291600, 524880, 944784, 1700611, 3061100, 5509980, 9917964, 17852336, 32134205, 57841569 >>
  @@ "steel" :> << 27000, 48600, 87480, 157464, 283435, 510183, 918330, 1652994, 2975389, 5355700, 9640261, 17352470 >>
  @@ "wheat" :> << 11250, 20250, 36450, 65610, 118098, 212576, 382637, 688747, 1239745, 2231542, 4016775, 7230196 >>
  @@ "corn"  :> << 8100, 14580, 26244, 47239, 85030, 153055, 275499, 495898, 892616, 1606710, 2892078, 5205741 >>
  @@ "beef"  :> << 20250, 36450, 65610, 118098, 212576, 382637, 688747, 1239745, 2231542, 4016775, 7230196, 13014353 >>
  @@ "pork"  :> << 14400, 25920, 46656, 83980, 151165, 272097, 489776, 881596, 1586874, 2856373, 5141472, 9254651 >>

\* Math.floor(productionCost * Math.pow(1.4, L - 1))
DailyCostTable ==
     "oil"   :> << 50, 70, 97, 137, 192, 268, 376, 527, 737, 1033, 1446, 2024 >>
  @@ "gas"   :> << 2, 2, 3, 5, 7, 10, 15, 21, 29, 41, 57, 80 >>
  @@ "gold"  :> << 1500, 2100, 2939, 4115, 5762, 8067, 11294, 15812, 22136, 30991, 43388, 60743 >>
  @@ "steel" :> << 400, 560, 783, 1097, 1536, 2151, 3011, 4216, 5903, 8264, 11570, 16198 >>
  @@ "wheat" :> << 150, 210, 293, 411, 576, 806, 1129, 1581, 2213, 3099, 4338, 6074 >>
  @@ "corn"  :> << 100, 140, 195, 274, 384, 537, 752, 1054, 1475, 2066, 2892, 4049 >>
  @@ "beef"  :> << 300, 420, 587, 823, 1152, 1613, 2258, 3162, 4427, 6198, 8677, 12148 >>
  @@ "pork"  :> << 200, 280, 391, 548, 768, 1075, 1505, 2108, 2951, 4132, 5785, 8099 >>

\* Math.floor(totalInvested * 0.7) at level L
RefundTable ==
     "oil"   :> << 1400, 3919, 8456, 16620, 31317, 57770, 105387, 191098, 345377, 623080, 1122945, 2022703 >>
  @@ "gas"   :> << 70, 196, 422, 830, 1565, 2887, 5268, 9553, 17266, 31151, 56144, 101131 >>
  @@ "gold"  :> << 35000, 98000, 211400, 415520, 782936, 1444284, 2634712, 4777482, 8634468, 15577043, 28073678, 50567622 >>
  @@ "steel" :> << 10500, 29399, 63419, 124655, 234880, 433285, 790413, 1433244, 2590340, 4673112, 8422102, 15170285 >>
  @@ "wheat" :> << 4375, 12250, 26425, 51940, 97867, 180535, 329338, 597184, 1079307, 1947129, 3509208, 6320951 >>
  @@ "corn"  :> << 3150, 8820, 19026, 37396, 70464, 129985, 237123, 429972, 777101, 1401932, 2526629, 4551084 >>
  @@ "beef"  :> << 7874, 22050, 47565, 93492, 176160, 324963, 592809, 1074932, 1942754, 3504833, 6316576, 11377713 >>
  @@ "pork"  :> << 5600, 15679, 33824, 66483, 125269, 231084, 421552, 764395, 1381513, 2492324, 4491785, 8090816 >>

\* commodity.basePrice * 25
UnlockCost(c) == c.basePrice * 25 * Scale

\* Math.floor(commodity.basePrice * 25 * Math.pow(1.8, facility.level))
UpgradeCost(c, level) == UpgradeCostTable[c.id][level] * Scale

\* Math.floor(commodity.productionCost * Math.pow(1.4, facility.level - 1))
DailyCost(c, level) == DailyCostTable[c.id][level] * Scale

\* let totalInvested = unlockCost; for (i = 1; i < level; i++) totalInvested += floor(unlockCost * 1.8^i)
RECURSIVE TotalInvested(_, _)
TotalInvested(c, level) ==
  IF level <= 1 THEN UnlockCost(c)
  ELSE TotalInvested(c, level - 1) + UpgradeCost(c, level - 1)

\* Math.floor(totalInvested * 0.7)
Refund(c, level) == RefundTable[c.id][level] * Scale

-----------------------------------------------------------------------------
(* Initial state: useState initialisers, part_002 lines 119-161 and 694-735 *)

InitialPrices ==
  [id \in Ids |-> [id |-> id,
                   currentPrice |-> Commodity(id).basePrice * Scale,
                   history |-> << Commodity(id).basePrice * Scale >>,
                   trend |-> "stable"]]

InitialGameState ==
  [cash |-> INITIAL_CASH * Scale,
   debt |-> 0,
   day |-> 1,
   cycleProgress |-> 0,
   inventory |-> [i \in 1..Len(COMMODITIES) |-> [commodityId |-> COMMODITIES[i].id, quantity |-> 0]],
   facilities |-> << >>,
   prices |-> InitialPrices,
   lastLedger |-> [sales |-> 0, purchases |-> 0, productionCosts |-> 0, net |-> 0],
   lifetime |-> [totalSales |-> 0, totalMarketPurchases |-> 0, totalProductionCosts |-> 0,
                 totalConstruction |-> 0, totalUpgrades |-> 0, totalInterestPaid |-> 0,
                 totalTaxesPaid |-> 0],
   activeEvent |-> NoEvent,
   taxRate |-> INITIAL_TAX_RATE,
   nextTaxDay |-> TAX_CYCLE]

Init ==
  /\ variant \in {"pause", "nopause"}
  /\ gameState = InitialGameState
  /\ isGameOver = FALSE
  /\ isPaused = FALSE
  /\ repayAmount = 0
  /\ cyclePurchasesRef = 0
  /\ cycleSalesRef = 0
  /\ cycleProductionRef = 0
  /\ clicks = 0

-----------------------------------------------------------------------------
(* Derived values and the game-over effect *)

RECURSIVE SumInventory(_, _, _)
SumInventory(inventory, prices, i) ==
  IF i > Len(inventory) THEN 0
  ELSE inventory[i].quantity * prices[inventory[i].commodityId].currentPrice
       + SumInventory(inventory, prices, i + 1)

\* inventory.reduce((acc, item) => acc + item.quantity * price, 0)
InventoryValueOf(inventory, prices) == SumInventory(inventory, prices, 1)

RECURSIVE SumFacilities(_, _)
SumFacilities(facilities, i) ==
  IF i > Len(facilities) THEN 0
  ELSE TotalInvested(Commodity(facilities[i].commodityId), facilities[i].level)
       + SumFacilities(facilities, i + 1)

\* facilities.reduce((acc, facility) => acc + totalCost, 0)
InfrastructureValueOf(facilities) == SumFacilities(facilities, 1)

inventoryValue == InventoryValueOf(gameState.inventory, gameState.prices)

infrastructureValue == InfrastructureValueOf(gameState.facilities)

NetEquityOf(gs) ==
  IF variant = "pause"
  THEN gs.cash + InventoryValueOf(gs.inventory, gs.prices) + InfrastructureValueOf(gs.facilities) - gs.debt
  ELSE gs.cash + InventoryValueOf(gs.inventory, gs.prices) - gs.debt

netEquity == NetEquityOf(gameState)

\* mutant: the solvency check made on cash net of debt, the holdings left out
GameOverEffectCashOnly(gs, over) == over \/ gs.cash - gs.debt < Threshold

\* useEffect(() => { if (netEquity < threshold && !isGameOver) setIsGameOver(true) }):
\* the value of isGameOver once the render that follows a state change has run its effects.
GameOverEffect(gs, over) == over \/ NetEquityOf(gs) < Threshold

-----------------------------------------------------------------------------
(* Price model *)

\* nextEvent && (nextEvent.category === c.category || nextEvent.category === 'ALL')
Impacts(ev, c) == ev # NoEvent /\ (ev.category = c.category \/ ev.category = "ALL")

TargetPrice(c, ev) ==
  IF Impacts(ev, c) THEN MulDiv(c.basePrice * Scale, ev.multiplier, 10) ELSE c.basePrice * Scale

\* (Math.random() - 0.5) * 2 * volatility, in 1/(50 * RandDen)
ChangePercent(c, u) == (u - RandDen \div 2) * c.volatility

\* (targetPrice - price.currentPrice) * 0.1
Gravity(target, current) == MulDiv(target - current, 1, 10)

\* c.basePrice * 0.1
PriceFloor(c) == MulDiv(c.basePrice * Scale, 1, 10)

\* (price.currentPrice + gravity) * (1 + changePercent)
ShockedPrice(c, current, ev, u) ==
  LET pulled == current + Gravity(TargetPrice(c, ev), current)
  IN  pulled + MulDiv(pulled, ChangePercent(c, u), 50 * RandDen)

\* mutant: the Math.max with the floor left out
NewPriceUnfloored(c, current, ev, u) == ShockedPrice(c, current, ev, u)

\* Math.max(c.basePrice * 0.1, (price.currentPrice + gravity) * (1 + changePercent))
NewPrice(c, current, ev, u) == Max(PriceFloor(c), ShockedPrice(c, current, ev, u))

\* mutant: the history appended to and never cut
NewHistoryUncut(history, newPrice) == Append(history, newPrice)

\* [...price.history, newPrice].slice(-20)
NewHistory(history, newPrice) ==
  LET h == Append(history, newPrice)
  IN  IF Len(h) > HistoryCap THEN SubSeq(h, Len(h) - HistoryCap + 1, Len(h)) ELSE h

PriceUpdate(price, c, ev, u) ==
  LET newPrice == NewPrice(c, price.currentPrice, ev, u)
  IN  [price EXCEPT !.currentPrice = newPrice,
                    !.history = NewHistory(price.history, newPrice),
                    !.trend = IF newPrice > price.currentPrice THEN "up" ELSE "down"]

\* COMMODITIES.forEach(c => { ... nextPrices[c.id] = ... }); shocks[id] is the draw made for id
NextPrices(prices, ev, shocks) ==
  [id \in Ids |-> PriceUpdate(prices[id], Commodity(id), ev, shocks[id])]

-----------------------------------------------------------------------------
(* Event scheduler *)

\* mutant: the event cleared one day late (remainingDays < 0 for <= 0)
EventCountdownLate(ev) ==
  IF ev = NoEvent THEN NoEvent
  ELSE IF ev.remainingDays - 1 < 0 THEN NoEvent
  ELSE [ev EXCEPT !.remainingDays = @ - 1]

\* if (nextEvent) { remainingDays - 1; if (remainingDays <= 0) nextEvent = null }
EventCountdown(ev) ==
  IF ev = NoEvent THEN NoEvent
  ELSE IF ev.remainingDays - 1 <= 0 THEN NoEvent
  ELSE [ev EXCEPT !.remainingDays = @ - 1]

\* mutant: the new event activated with its first day already counted
DrawnEventSpent(ui, ud) ==
  LET randomEvent == EVENTS_POOL[((ui * Len(EVENTS_POOL)) \div RandDen) + 1]
      duration == ((ud * 5) \div RandDen) + 3
  IN  [name |-> randomEvent.name, category |-> randomEvent.category,
       multiplier |-> randomEvent.multiplier, duration |-> duration, remainingDays |-> duration - 1]

\* mutant: durations of 8 to 12 days, as long as a cycle and longer
DrawnEventLong(ui, ud) ==
  LET randomEvent == EVENTS_POOL[((ui * Len(EVENTS_POOL)) \div RandDen) + 1]
      duration == ((ud * 5) \div RandDen) + 8
  IN  [name |-> randomEvent.name, category |-> randomEvent.category,
       multiplier |-> randomEvent.multiplier, duration |-> duration, remainingDays |-> duration]

\* EVENTS_POOL[Math.floor(Math.random() * EVENTS_POOL.length)], duration Math.floor(Math.random() * 5) + 3
DrawnEvent(ui, ud) ==
  LET randomEvent == EVENTS_POOL[((ui * Len(EVENTS_POOL)) \div RandDen) + 1]
      duration == ((ud * 5) \div RandDen) + 3
  IN  [name |-> randomEvent.name, category |-> randomEvent.category,
       multiplier |-> randomEvent.multiplier, duration |-> duration, remainingDays |-> duration]

\* mutant: the trigger fired by a draw of exactly 0.3 as well
TriggersAtThreshold(nextCycleProgress, ev, ug) ==
  nextCycleProgress >= 10 /\ ev = NoEvent /\ ug * 10 >= 3 * RandDen

\* nextCycleProgress >= 10 && !nextEvent && Math.random() > 0.3
Triggers(nextCycleProgress, ev, ug) ==
  nextCycleProgress >= 10 /\ ev = NoEvent /\ ug * 10 > 3 * RandDen

EventUpdate(ev, nextCycleProgress, ug, ui, ud) ==
  LET counted == EventCountdown(ev)
  IN  IF Triggers(nextCycleProgress, counted, ug) THEN DrawnEvent(ui, ud) ELSE counted

-----------------------------------------------------------------------------
(* Production engine *)

\* 5 + (facility.level * 10)
SpeedFactor(level) == 5 + level * 10

\* mutant: one cycle taken off the progress (newProgress - 100 for newProgress % 100)
WrappedProgressMinus(newProgress) == IF newProgress >= 100 THEN newProgress - 100 ELSE newProgress

\* the progress stored after newProgress = facility.progress + speedFactor
WrappedProgress(newProgress) == IF newProgress >= 100 THEN newProgress % 100 ELSE newProgress

\* invIdx = nextInventory.findIndex(i => i.commodityId === id); if (invIdx !== -1) quantity += amount
CreditInventory(inventory, id, amount) ==
  LET hits == { i \in 1..Len(inventory) : inventory[i].commodityId = id }
  IN  IF hits = {} THEN inventory
      ELSE LET invIdx == CHOOSE i \in hits : \A j \in hits : i <= j
           IN  [inventory EXCEPT ![invIdx].quantity = @ + amount]

\* mutant: one batch credited for every 100 points of progress crossed
ProduceOnePerCrossing(facility, hasNoCash, acc) ==
  LET commodity == Commodity(facility.commodityId)
      newProgress == facility.progress + SpeedFactor(facility.level)
  IN  IF facility.isProducing /\ ~hasNoCash
      THEN [cost |-> acc.cost + DailyCost(commodity, facility.level),
            inventory |-> CreditInventory(acc.inventory, facility.commodityId,
                                          (newProgress \div 100) * commodity.productionYield),
            facilities |-> Append(acc.facilities, [facility EXCEPT !.progress = WrappedProgress(newProgress)])]
      ELSE [cost |-> acc.cost,
            inventory |-> acc.inventory,
            facilities |-> Append(acc.facilities,
                                  [facility EXCEPT !.isProducing = IF facility.isProducing /\ hasNoCash
                                                                   THEN FALSE ELSE @])]

\* mutant: a stopped facility set producing again once there is cash
ProduceOneResumes(facility, hasNoCash, acc) ==
  LET commodity == Commodity(facility.commodityId)
      newProgress == facility.progress + SpeedFactor(facility.level)
  IN  IF facility.isProducing /\ ~hasNoCash
      THEN [cost |-> acc.cost + DailyCost(commodity, facility.level),
            inventory |-> IF newProgress >= 100
                          THEN CreditInventory(acc.inventory, facility.commodityId, commodity.productionYield)
                          ELSE acc.inventory,
            facilities |-> Append(acc.facilities, [facility EXCEPT !.progress = WrappedProgress(newProgress)])]
      ELSE [cost |-> acc.cost,
            inventory |-> acc.inventory,
            facilities |-> Append(acc.facilities, [facility EXCEPT !.isProducing = ~hasNoCash])]

\* one iteration of prev.facilities.forEach(facility => { ... }) on the accumulator acc
ProduceOne(facility, hasNoCash, acc) ==
  LET commodity == Commodity(facility.commodityId)
      isForcePaused == facility.isProducing /\ hasNoCash
      actualProducing == facility.isProducing /\ ~hasNoCash
      newProgress == facility.progress + SpeedFactor(facility.level)
  IN  IF actualProducing
      THEN [cost |-> acc.cost + DailyCost(commodity, facility.level),
            inventory |-> IF newProgress >= 100
                          THEN CreditInventory(acc.inventory, facility.commodityId, commodity.productionYield)
                          ELSE acc.inventory,
            facilities |-> Append(acc.facilities, [facility EXCEPT !.progress = WrappedProgress(newProgress)])]
      ELSE [cost |-> acc.cost,
            inventory |-> acc.inventory,
            facilities |-> Append(acc.facilities,
                                  [facility EXCEPT !.isProducing = IF isForcePaused THEN FALSE ELSE @])]

RECURSIVE ProductionLoop(_, _, _, _)
ProductionLoop(facilities, i, hasNoCash, acc) ==
  IF i > Len(facilities) THEN acc
  ELSE ProductionLoop(facilities, i + 1, hasNoCash, ProduceOne(facilities[i], hasNoCash, acc))

\* currentDayProductionCost, nextInventory and nextFacilities after the loop
Production(prev, hasNoCash) ==
  ProductionLoop(prev.facilities, 1, hasNoCash,
                 [cost |-> 0, inventory |-> prev.inventory, facilities |-> << >>])

-----------------------------------------------------------------------------
(* Fiscal and credit subsystems *)

\* mutant: the tax due from the day after nextTaxDay on
TaxDueLate(prev) == prev.day + 1 > prev.nextTaxDay

\* if (nextDay >= nextTaxDay)
TaxDue(prev) == prev.day + 1 >= prev.nextTaxDay

\* mutant: the holdings valued at the prices of the day before
TaxBillAtOldPrices(prev, nextPrices) ==
  IF variant = "pause"
  THEN Max(0, MulDiv(prev.cash + InventoryValueOf(prev.inventory, prev.prices)
                     + InfrastructureValueOf(prev.facilities) - prev.debt,
                     prev.taxRate, RateDen))
  ELSE MulDiv(prev.cash, prev.taxRate, RateDen)

\* App with pause: Math.max(0, currentNetWorth * currentTaxRate), net worth at the new prices;
\* App without pause: nextCash * currentTaxRate
TaxBill(prev, nextPrices) ==
  IF variant = "pause"
  THEN Max(0, MulDiv(prev.cash + InventoryValueOf(prev.inventory, nextPrices)
                     + InfrastructureValueOf(prev.facilities) - prev.debt,
                     prev.taxRate, RateDen))
  ELSE MulDiv(prev.cash, prev.taxRate, RateDen)

\* mutant: the new rate drawn from a band of width 0.30
DrawnTaxRateWide(ut) == MulDiv(RateDen, 1, 10) + MulDiv(ut, MulDiv(RateDen, 30, 100), RandDen)

\* 0.10 + Math.random() * 0.10 (App with pause), 0.10 + Math.random() * 0.25 (App without pause)
DrawnTaxRate(ut) ==
  IF variant = "pause"
  THEN MulDiv(RateDen, 1, 10) + MulDiv(ut, MulDiv(RateDen, 10, 100), RandDen)
  ELSE MulDiv(RateDen, 1, 10) + MulDiv(ut, MulDiv(RateDen, 25, 100), RandDen)

\* mutant: the interest discounted by one day (debt * 0.015 / 1.015)
DailyInterestSimple(debt) == MulDiv(debt, DAILY_INTEREST_RATE, 1000 + DAILY_INTEREST_RATE)

\* prev.debt * DAILY_INTEREST_RATE
DailyInterest(debt) == MulDiv(debt, DAILY_INTEREST_RATE, 1000)

\* cash: nextCash - currentDayProductionCost (App with pause),
\*       Math.max(0, nextCash - currentDayProductionCost) (App without pause)
CashAfterProduction(nextCash, cost) ==
  IF variant = "pause" THEN nextCash - cost ELSE Max(0, nextCash - cost)

-----------------------------------------------------------------------------
(* The tick: the updater passed to setGameState by the interval callback,    *)
(* part_002 lines 196-321 (App with pause) and 759-883 (App without pause).  *)
(* shocks, ut, ug, ui, ud are the values drawn from Math.random().           *)

\* mutant: the insolvency test passed by a cash of exactly zero
HasNoCashStrict(nextCash) == nextCash < 0

\* const hasNoCash = nextCash <= 0;
HasNoCash(nextCash) == nextCash <= 0

\* mutant: the cycle wrapped one day late
WrappedCycleLate(nextCycleProgress) == IF nextCycleProgress > 10 THEN 0 ELSE nextCycleProgress

\* cycleProgress: nextCycleProgress >= 10 ? 0 : nextCycleProgress
WrappedCycle(nextCycleProgress) == IF nextCycleProgress >= 10 THEN 0 ELSE nextCycleProgress

\* mutant: the ledger rolled one day early
LedgerRollsEarly(nextCycleProgress) == nextCycleProgress >= 9

\* if (nextCycleProgress >= 10) { finalLedger = ...; the three refs = 0 }
LedgerRolls(nextCycleProgress) == nextCycleProgress >= 10

AdvanceDay(prev, shocks, ut, ug, ui, ud) ==
  LET nextDay == prev.day + 1
      nextCycleProgress == prev.cycleProgress + 1
      nextEvent == EventUpdate(prev.activeEvent, nextCycleProgress, ug, ui, ud)
      \* the App with pause prices with the event as it stood before the tick,
      \* the App without pause with the event as updated by the tick
      nextPrices == NextPrices(prev.prices,
                               IF variant = "pause" THEN prev.activeEvent ELSE nextEvent,
                               shocks)
      due == TaxDue(prev)
      taxBill == IF due THEN TaxBill(prev, nextPrices) ELSE 0
      nextCash == prev.cash - taxBill
      dailyInterest == DailyInterest(prev.debt)
      hasNoCash == HasNoCash(nextCash)
      prod == Production(prev, hasNoCash)
  IN  [state |->
         [prev EXCEPT
            !.day = nextDay,
            !.cycleProgress = WrappedCycle(nextCycleProgress),
            !.prices = nextPrices,
            !.inventory = prod.inventory,
            !.facilities = prod.facilities,
            !.cash = CashAfterProduction(nextCash, prod.cost),
            !.debt = prev.debt + dailyInterest,
            !.activeEvent = nextEvent,
            !.taxRate = IF due THEN DrawnTaxRate(ut) ELSE @,
            !.nextTaxDay = IF due THEN @ + TAX_CYCLE ELSE @,
            !.lifetime = [@ EXCEPT !.totalProductionCosts = @ + prod.cost,
                                   !.totalInterestPaid = @ + dailyInterest,
                                   !.totalTaxesPaid = @ + taxBill]],
       cost |-> prod.cost,
       rolls |-> LedgerRolls(nextCycleProgress)]

\* mutant: the interval kept alive after bankruptcy
TickScheduledWhenOver == ~isPaused

\* if (isGameOver || isPaused) return;  -- the interval exists only while this holds
TickScheduled == ~isGameOver /\ ~isPaused

\* One firing of the interval.  ShockSet: the vectors of price draws; TaxSet, TrigSet,
\* PoolSet, DurSet: the values drawn for the tax rate, the trigger, the template, the duration.
Tick(ShockSet, TaxSet, TrigSet, PoolSet, DurSet) ==
  /\ TickScheduled
  /\ \E shocks \in ShockSet :
     \E ut \in (IF TaxDue(gameState) THEN TaxSet ELSE {0}) :
     \E ug \in (IF gameState.cycleProgress + 1 >= 10 /\ EventCountdown(gameState.activeEvent) = NoEvent
                THEN TrigSet ELSE {0}) :
     \E ui \in (IF Triggers(gameState.cycleProgress + 1, EventCountdown(gameState.activeEvent), ug)
                THEN PoolSet ELSE {0}) :
     \E ud \in (IF Triggers(gameState.cycleProgress + 1, EventCountdown(gameState.activeEvent), ug)
                THEN DurSet ELSE {0}) :
       LET r == AdvanceDay(gameState, shocks, ut, ug, ui, ud)
           production == cycleProductionRef + r.cost
       IN  /\ gameState' =
                 IF r.rolls
                 THEN [r.state EXCEPT !.lastLedger =
                         [sales |-> cycleSalesRef,
                          purchases |-> cyclePurchasesRef,
                          productionCosts |-> production,
                          net |-> cycleSalesRef - cyclePurchasesRef - production]]
                 ELSE r.state
           /\ cycleSalesRef' = IF r.rolls THEN 0 ELSE cycleSalesRef
           /\ cyclePurchasesRef' = IF r.rolls THEN 0 ELSE cyclePurchasesRef
           /\ cycleProductionRef' = IF r.rolls THEN 0 ELSE production
           /\ isGameOver' = GameOverEffect(gameState', isGameOver)
  /\ UNCHANGED << variant, isPaused, repayAmount >>

-----------------------------------------------------------------------------
(* Player action handlers.  Each action is one call of the handler with the  *)
(* render that follows it (the game-over effect included).                   *)

\* prev.inventory.find(i => i.commodityId === id): the quantity held, -1 when there is no entry
OwnedQuantity(inventory, id) ==
  LET hits == { i \in 1..Len(inventory) : inventory[i].commodityId = id }
  IN  IF hits = {} THEN 0 - 1
      ELSE inventory[CHOOSE i \in hits : \A j \in hits : i <= j].quantity

\* mutant: the early return of a sale the inventory cannot cover left out
TradeRejectedBuyOnly(prev, id, quantity) ==
  quantity > 0 /\ prev.cash < quantity * prev.prices[id].currentPrice

\* the two early returns of the updater of handleTrade
TradeRejected(prev, id, quantity) ==
  LET totalCost == quantity * prev.prices[id].currentPrice
      owned == OwnedQuantity(prev.inventory, id)
  IN  \/ quantity > 0 /\ prev.cash < totalCost
      \/ quantity < 0 /\ (owned < 0 \/ owned < Abs(quantity))

\* mutant: the accepted trade settled without the lifetime statistics
TradeResultNoLifetime(prev, id, quantity) ==
  [prev EXCEPT
     !.cash = @ - quantity * prev.prices[id].currentPrice,
     !.inventory = [i \in 1..Len(prev.inventory) |->
                      IF prev.inventory[i].commodityId = id
                      THEN [prev.inventory[i] EXCEPT !.quantity = @ + quantity]
                      ELSE prev.inventory[i]]]

\* mutant: the accepted trade recorded in the price history of the commodity
TradeResultQuoted(prev, id, quantity) ==
  LET totalCost == quantity * prev.prices[id].currentPrice
  IN  [prev EXCEPT
         !.cash = @ - totalCost,
         !.inventory = [i \in 1..Len(prev.inventory) |->
                          IF prev.inventory[i].commodityId = id
                          THEN [prev.inventory[i] EXCEPT !.quantity = @ + quantity]
                          ELSE prev.inventory[i]],
         !.prices = [@ EXCEPT ![id].history = NewHistory(@, prev.prices[id].currentPrice)],
         !.lifetime = [@ EXCEPT
                         !.totalSales = IF quantity < 0 THEN @ + Abs(totalCost) ELSE @,
                         !.totalMarketPurchases = IF quantity > 0 THEN @ + totalCost ELSE @]]

\* the state returned by the updater of handleTrade when the trade is accepted
TradeResult(prev, id, quantity) ==
  LET totalCost == quantity * prev.prices[id].currentPrice
  IN  [prev EXCEPT
         !.cash = @ - totalCost,
         !.inventory = [i \in 1..Len(prev.inventory) |->
                          IF prev.inventory[i].commodityId = id
                          THEN [prev.inventory[i] EXCEPT !.quantity = @ + quantity]
                          ELSE prev.inventory[i]],
         !.lifetime = [@ EXCEPT
                         !.totalSales = IF quantity < 0 THEN @ + Abs(totalCost) ELSE @,
                         !.totalMarketPurchases = IF quantity > 0 THEN @ + totalCost ELSE @]]

\* mutant: the accepted trade left out of the cycle counters
handleTradeUncounted(id, quantity) ==
  /\ gameState' = IF isGameOver \/ isPaused \/ TradeRejected(gameState, id, quantity)
                  THEN gameState ELSE TradeResult(gameState, id, quantity)
  /\ isGameOver' = GameOverEffect(gameState', isGameOver)
  /\ UNCHANGED << variant, isPaused, repayAmount, cyclePurchasesRef, cycleSalesRef, cycleProductionRef >>

\* if (isGameOver || isPaused) return;   (App without pause: if (isGameOver) return;)
TradeBlocked == isGameOver \/ isPaused

handleTrade(id, quantity) ==
  /\ IF TradeBlocked \/ TradeRejected(gameState, id, quantity)
     THEN UNCHANGED << gameState, cyclePurchasesRef, cycleSalesRef >>
     ELSE LET totalCost == quantity * gameState.prices[id].currentPrice
          IN  /\ gameState' = TradeResult(gameState, id, quantity)
              /\ cyclePurchasesRef' = IF quantity > 0 THEN cyclePurchasesRef + totalCost
                                      ELSE cyclePurchasesRef
              /\ cycleSalesRef' = IF quantity > 0 THEN cycleSalesRef
                                  ELSE cycleSalesRef + Abs(totalCost)
  /\ isGameOver' = GameOverEffect(gameState', isGameOver)
  /\ UNCHANGED << variant, isPaused, repayAmount, cycleProductionRef >>

\* prev.facilities.find(f => f.commodityId === id): its index, 0 when there is none
FacilityIndex(facilities, id) ==
  LET hits == { i \in 1..Len(facilities) : facilities[i].commodityId = id }
  IN  IF hits = {} THEN 0 ELSE CHOOSE i \in hits : \A j \in hits : i <= j

\* mutant: the handlers without their pause gate
HandlerNeverBlocked == FALSE

\* if (isPaused) return;  -- the only gate of the facility, loan and repay handlers,
\* and absent from the App without pause
HandlerBlocked == variant = "pause" /\ isPaused

\* mutant: the facility built without the entry in lifetime.totalConstruction
UnlockResultUnbooked(prev, id) ==
  LET cost == UnlockCost(Commodity(id))
  IN  IF prev.cash < cost \/ FacilityIndex(prev.facilities, id) # 0 THEN prev
      ELSE [prev EXCEPT
              !.cash = @ - cost,
              !.facilities = Append(@, [commodityId |-> id, level |-> 1,
                                        isProducing |-> TRUE, progress |-> 0])]

UnlockResult(prev, id) ==
  LET cost == UnlockCost(Commodity(id))
  IN  IF prev.cash < cost \/ FacilityIndex(prev.facilities, id) # 0 THEN prev
      ELSE [prev EXCEPT
              !.cash = @ - cost,
              !.facilities = Append(@, [commodityId |-> id, level |-> 1,
                                        isProducing |-> TRUE, progress |-> 0]),
              !.lifetime = [@ EXCEPT !.totalConstruction = @ + cost]]

handleUnlockFacility(id) ==
  /\ gameState' = IF HandlerBlocked THEN gameState ELSE UnlockResult(gameState, id)
  /\ isGameOver' = GameOverEffect(gameState', isGameOver)
  /\ UNCHANGED << variant, isPaused, repayAmount, cyclePurchasesRef, cycleSalesRef, cycleProductionRef >>

\* mutant: the upgraded facility restarted from progress 0
UpgradeResultRestart(prev, id) ==
  LET k == FacilityIndex(prev.facilities, id)
  IN  IF k = 0 THEN prev
      ELSE LET upgradeCost == UpgradeCost(Commodity(id), prev.facilities[k].level)
           IN  IF prev.cash < upgradeCost THEN prev
               ELSE [prev EXCEPT
                       !.cash = @ - upgradeCost,
                       !.facilities = [i \in 1..Len(prev.facilities) |->
                                         IF prev.facilities[i].commodityId = id
                                         THEN [prev.facilities[i] EXCEPT !.level = @ + 1, !.progress = 0]
                                         ELSE prev.facilities[i]],
                       !.lifetime = [@ EXCEPT !.totalUpgrades = @ + upgradeCost]]

\* mutant: the upgrade carried out without the test of the cash
UpgradeResultOnCredit(prev, id) ==
  LET k == FacilityIndex(prev.facilities, id)
  IN  IF k = 0 THEN prev
      ELSE LET upgradeCost == UpgradeCost(Commodity(id), prev.facilities[k].level)
           IN  [prev EXCEPT
                  !.cash = @ - upgradeCost,
                  !.facilities = [i \in 1..Len(prev.facilities) |->
                                    IF prev.facilities[i].commodityId = id
                                    THEN [prev.facilities[i] EXCEPT !.level = @ + 1]
                                    ELSE prev.facilities[i]],
                  !.lifetime = [@ EXCEPT !.totalUpgrades = @ + upgradeCost]]

UpgradeResult(prev, id) ==
  LET k == FacilityIndex(prev.facilities, id)
  IN  IF k = 0 THEN prev
      ELSE LET upgradeCost == UpgradeCost(Commodity(id), prev.facilities[k].level)
           IN  IF prev.cash < upgradeCost THEN prev
               ELSE [prev EXCEPT
                       !.cash = @ - upgradeCost,
                       !.facilities = [i \in 1..Len(prev.facilities) |->
                                         IF prev.facilities[i].commodityId = id
                                         THEN [prev.facilities[i] EXCEPT !.level = @ + 1]
                                         ELSE prev.facilities[i]],
                       !.lifetime = [@ EXCEPT !.totalUpgrades = @ + upgradeCost]]

handleUpgradeFacility(id) ==
  /\ gameState' = IF HandlerBlocked THEN gameState ELSE UpgradeResult(gameState, id)
  /\ isGameOver' = GameOverEffect(gameState', isGameOver)
  /\ UNCHANGED << variant, isPaused, repayAmount, cyclePurchasesRef, cycleSalesRef, cycleProductionRef >>

\* prev.facilities.filter(f => f.commodityId !== id)
RECURSIVE WithoutFacility(_, _)
WithoutFacility(facilities, id) ==
  IF facilities = << >> THEN << >>
  ELSE IF Head(facilities).commodityId = id THEN WithoutFacility(Tail(facilities), id)
  ELSE << Head(facilities) >> \o WithoutFacility(Tail(facilities), id)

\* mutant: the refund paid and the facility left standing
SellResultLeased(prev, id) ==
  LET k == FacilityIndex(prev.facilities, id)
  IN  IF k = 0 THEN prev
      ELSE [prev EXCEPT !.cash = @ + Refund(Commodity(id), prev.facilities[k].level)]

SellResult(prev, id) ==
  LET k == FacilityIndex(prev.facilities, id)
  IN  IF k = 0 THEN prev
      ELSE [prev EXCEPT
              !.cash = @ + Refund(Commodity(id), prev.facilities[k].level),
              !.facilities = WithoutFacility(@, id)]

\* App with pause only
handleSellFacility(id) ==
  /\ variant = "pause"
  /\ gameState' = IF HandlerBlocked THEN gameState ELSE SellResult(gameState, id)
  /\ isGameOver' = GameOverEffect(gameState', isGameOver)
  /\ UNCHANGED << variant, isPaused, repayAmount, cyclePurchasesRef, cycleSalesRef, cycleProductionRef >>

ToggleResult(prev, id) ==
  [prev EXCEPT !.facilities = [i \in 1..Len(prev.facilities) |->
                                 IF prev.facilities[i].commodityId = id
                                 THEN [prev.facilities[i] EXCEPT !.isProducing = ~@]
                                 ELSE prev.facilities[i]]]

handleToggleProduction(id) ==
  /\ gameState' = IF HandlerBlocked THEN gameState ELSE ToggleResult(gameState, id)
  /\ isGameOver' = GameOverEffect(gameState', isGameOver)
  /\ UNCHANGED << variant, isPaused, repayAmount, cyclePurchasesRef, cycleSalesRef, cycleProductionRef >>

\* mutant: the loan gate without the test of the outstanding debt
LoanBlockedWhenPaused == variant = "pause" /\ isPaused

\* App with pause: if (gameState.debt > 0 || isPaused) return;   App without pause: no gate
LoanBlocked == variant = "pause" /\ (gameState.debt > 0 \/ isPaused)

\* mutant: the loan paid out and not booked as debt
LoanResultUnbooked(prev, amount) == [prev EXCEPT !.cash = @ + amount]

LoanResult(prev, amount) == [prev EXCEPT !.cash = @ + amount, !.debt = @ + amount]

takeLoan(amount) ==
  /\ gameState' = IF LoanBlocked THEN gameState ELSE LoanResult(gameState, amount * Scale)
  /\ isGameOver' = GameOverEffect(gameState', isGameOver)
  /\ UNCHANGED << variant, isPaused, repayAmount, cyclePurchasesRef, cycleSalesRef, cycleProductionRef >>

\* mutant: the slider bounded by the cash alone
SliderMaxCash == Max(0, gameState.cash \div Scale)

\* maxRepayable = Math.min(gameState.cash, gameState.debt): the slider's max, in whole dollars
\* (the slider's min is 0 and its step 1)
SliderMax == Max(0, Min(gameState.cash, gameState.debt) \div Scale)

\* onChange={(e) => setRepayAmount(parseInt(e.target.value))}
setRepayAmount(dollars) ==
  /\ dollars \in 0..SliderMax
  /\ repayAmount' = dollars * Scale
  /\ UNCHANGED << variant, gameState, isGameOver, isPaused, cyclePurchasesRef, cycleSalesRef, cycleProductionRef >>

RepayResult(prev, amount) == [prev EXCEPT !.cash = @ - amount, !.debt = @ - amount]

handleRepay ==
  /\ IF HandlerBlocked
     THEN UNCHANGED << gameState, repayAmount >>
     ELSE /\ gameState' = RepayResult(gameState, repayAmount)
          /\ repayAmount' = 0
  /\ isGameOver' = GameOverEffect(gameState', isGameOver)
  /\ UNCHANGED << variant, isPaused, cyclePurchasesRef, cycleSalesRef, cycleProductionRef >>

\* onClick={() => setIsPaused(!isPaused)}, App with pause only
togglePause ==
  /\ variant = "pause"
  /\ isPaused' = ~isPaused
  /\ UNCHANGED << variant, gameState, isGameOver, repayAmount, cyclePurchasesRef, cycleSalesRef, cycleProductionRef >>

-----------------------------------------------------------------------------
(* Inputs and specifications *)

\* one draw of Math.random() per commodity, the same value u for all of them
ConstShocks(U) == { [id \in Ids |-> u] : u \in U }

\* the least and the greatest value Math.random() returns on this grid
LowDraw == 0

HighDraw == RandDen - 1

\* positions of the repayment slider tried: both ends and the middle
SliderStops == {0, SliderMax \div 2, SliderMax}

\* the values of Math.random() that select each template, each duration
PoolDraws == { (k * RandDen + Len(EVENTS_POOL) - 1) \div Len(EVENTS_POOL) : k \in 0..(Len(EVENTS_POOL) - 1) }

DurationDraws == { (k * RandDen) \div 5 : k \in 0..4 }

\* a player event counted against the bound n; a step that is none
Click(n) == clicks < n /\ clicks' = clicks + 1

NoClick == clicks' = clicks

MaxDay == 2

MaxClicks == 3

TradeIds == {"gas"}

TradeQuantities == {0 - 1, 1, 6000}

FacilityIds == {"oil"}

SpecShocks == ConstShocks({LowDraw, HighDraw})

\* General play: every handler and the tick, a few days, a few player events.
Next ==
  \/ gameState.day < MaxDay /\ NoClick /\ Tick(SpecShocks, {LowDraw}, {HighDraw}, {LowDraw}, {LowDraw})
  \/ \E id \in TradeIds : \E q \in TradeQuantities : Click(MaxClicks) /\ handleTrade(id, q)
  \/ \E id \in FacilityIds : Click(MaxClicks) /\ handleUnlockFacility(id)
  \/ \E id \in FacilityIds : Click(MaxClicks) /\ handleUpgradeFacility(id)
  \/ \E id \in FacilityIds : Click(MaxClicks) /\ handleSellFacility(id)
  \/ \E id \in FacilityIds : Click(MaxClicks) /\ handleToggleProduction(id)
  \/ \E amount \in LoanMenu : Click(MaxClicks) /\ takeLoan(amount)
  \/ \E dollars \in SliderStops : Click(MaxClicks) /\ setRepayAmount(dollars)
  \/ Click(MaxClicks) /\ handleRepay
  \/ Click(MaxClicks) /\ togglePause

Spec == Init /\ [][Next]_vars

\* The market left to itself for four weeks: ticks only, every price draw the
\* least value, every event template and duration, triggered or not.
MarketDays == 28

MarketShocks == ConstShocks({LowDraw})

NextMarket ==
  gameState.day < MarketDays /\ NoClick
  /\ Tick(MarketShocks, {LowDraw, HighDraw}, {LowDraw, HighDraw}, PoolDraws, DurationDraws)

SpecMarket == Init /\ [][NextMarket]_vars

\* The factory floor: a leveraged speculation on a rising market pays for a facility
\* taken through its levels from day BuildDay on.  Upgrades are bounded by the level,
\* the other clicks counted.
FactoryDays == 5
BuildDay == 3
FactoryClicks == 4
FactoryLevel == 10
FactoryIds == {"gas"}
FactoryLoan == CHOOSE a \in LoanMenu : \A b \in LoanMenu : a >= b
\* the whole of the opening cash and the loan, at the opening price
FactoryLot(id) == (INITIAL_CASH + FactoryLoan) \div Commodity(id).basePrice
FactoryShocks == ConstShocks({HighDraw})
BelowFactoryLevel(id) ==
  \A i \in 1..Len(gameState.facilities) :
    gameState.facilities[i].commodityId = id => gameState.facilities[i].level < FactoryLevel

NextFactory ==
  \/ gameState.day < FactoryDays /\ NoClick /\ Tick(FactoryShocks, {LowDraw}, {HighDraw}, {LowDraw}, {LowDraw})
  \/ Click(FactoryClicks) /\ takeLoan(FactoryLoan)
  \/ \E id \in FactoryIds : \E q \in {FactoryLot(id), 0 - FactoryLot(id)} : Click(FactoryClicks) /\ handleTrade(id, q)
  \/ \E id \in FactoryIds : gameState.day >= BuildDay /\ Click(FactoryClicks) /\ handleUnlockFacility(id)
  \/ \E id \in FactoryIds : BelowFactoryLevel(id) /\ NoClick /\ handleUpgradeFacility(id)
  \/ \E id \in FactoryIds : Click(FactoryClicks) /\ handleSellFacility(id)
  \/ \E id \in FactoryIds : Click(FactoryClicks) /\ handleToggleProduction(id)

SpecFactory == Init /\ [][NextFactory]_vars

\* The credit desk: loans, the repayment slider and its confirmation, the pause
\* button, and a purchase that spends cash between the choice of an amount and its
\* confirmation, over a few days of a falling market.
CreditDays == 4
CreditClicks == 4
CreditIds == {"gas"}
CreditLots == {2000}
\* the smallest loan button
CreditLoan == CHOOSE a \in LoanMenu : \A b \in LoanMenu : a <= b
CreditShocks == ConstShocks({LowDraw})

NextCredit ==
  \/ gameState.day < CreditDays /\ NoClick /\ Tick(CreditShocks, {LowDraw}, {LowDraw}, {LowDraw}, {LowDraw})
  \/ Click(CreditClicks) /\ takeLoan(CreditLoan)
  \/ \E dollars \in SliderStops : Click(CreditClicks) /\ setRepayAmount(dollars)
  \/ Click(CreditClicks) /\ handleRepay
  \/ Click(CreditClicks) /\ togglePause
  \/ \E id \in CreditIds : \E q \in CreditLots : Click(CreditClicks) /\ handleTrade(id, q)

SpecCredit == Init /\ [][NextCredit]_vars

\* The books: two ten-day cycles on a still market, with a purchase, a sale and a
\* facility in production to fill the cycle counters.
LedgerDays == 21
LedgerClicks == 3
LedgerIds == {"gas"}
LedgerLots == {100, 0 - 100}
LedgerFacilities == {"oil"}
LedgerShocks == ConstShocks({RandDen \div 2})

NextLedger ==
  \/ gameState.day < LedgerDays /\ NoClick /\ Tick(LedgerShocks, {LowDraw}, {LowDraw}, {LowDraw}, {LowDraw})
  \/ \E id \in LedgerIds : \E q \in LedgerLots : Click(LedgerClicks) /\ handleTrade(id, q)
  \/ \E id \in LedgerFacilities : Click(LedgerClicks) /\ handleUnlockFacility(id)

SpecLedger == Init /\ [][NextLedger]_vars

\* The tax office: a still market up to the first tax day; in the last TaxLead days
\* before it the player borrows, buys, and repays with the slider.
TaxDays == 30
TaxLead == 1
TaxClicks == 4
TaxIds == {"gas"}
TaxLots == {6000}
TaxShocks == ConstShocks({RandDen \div 2})
NearTaxDay == gameState.day + TaxLead >= gameState.nextTaxDay

NextTax ==
  \/ gameState.day < TaxDays /\ NoClick /\ Tick(TaxShocks, {LowDraw, HighDraw}, {LowDraw}, {LowDraw}, {LowDraw})
  \/ NearTaxDay /\ Click(TaxClicks) /\ takeLoan(FactoryLoan)
  \/ \E dollars \in SliderStops : NearTaxDay /\ Click(TaxClicks) /\ setRepayAmount(dollars)
  \/ NearTaxDay /\ Click(TaxClicks) /\ handleRepay
  \/ \E id \in TaxIds : \E q \in TaxLots : NearTaxDay /\ Click(TaxClicks) /\ handleTrade(id, q)

SpecTax == Init /\ [][NextTax]_vars

\* Two tax cycles: a still market that moves on the tax days only, up or down, and
\* both ends of the band of the new rate; on the eve of the first tax day the player
\* borrows, buys and builds.
FiscalDays == 61
FiscalClicks == 3
FiscalIds == {"gas"}
FiscalLots == {700}
FiscalFacilities == {"oil"}
FiscalShocks ==
  IF TaxDue(gameState) THEN ConstShocks({LowDraw, HighDraw}) ELSE ConstShocks({RandDen \div 2})
FiscalEve == gameState.day + 1 = TAX_CYCLE

NextFiscal ==
  \/ gameState.day < FiscalDays /\ NoClick /\ Tick(FiscalShocks, {LowDraw, HighDraw}, {LowDraw}, {LowDraw}, {LowDraw})
  \/ FiscalEve /\ Click(FiscalClicks) /\ takeLoan(CreditLoan)
  \/ \E id \in FiscalIds : \E q \in FiscalLots : FiscalEve /\ Click(FiscalClicks) /\ handleTrade(id, q)
  \/ \E id \in FiscalFacilities : FiscalEve /\ Click(FiscalClicks) /\ handleUnlockFacility(id)

SpecFiscal == Init /\ [][NextFiscal]_vars

\* The news desk: the first cycle of a falling market ends with every template and
\* duration, or with no event; from day NewsDay on the player trades and builds.
NewsDays == 14
NewsDay == 10
NewsClicks == 2
NewsIds == {"gas"}
NewsLots == {100}
NewsFacilities == {"oil"}
\* draws of Math.random() that do not exceed 0.3: the least one and 0.3 itself
CalmDraws == {LowDraw, (3 * RandDen) \div 10}

NextNews ==
  \/ gameState.day < NewsDays /\ NoClick
     /\ Tick(MarketShocks, {LowDraw}, CalmDraws \cup {HighDraw}, PoolDraws, DurationDraws)
  \/ \E id \in NewsIds : \E q \in NewsLots : gameState.day >= NewsDay /\ Click(NewsClicks) /\ handleTrade(id, q)
  \/ \E id \in NewsFacilities : gameState.day >= NewsDay /\ Click(NewsClicks) /\ handleUnlockFacility(id)

SpecNews == Init /\ [][NextNews]_vars

\* Out of cash: the player builds, spends the rest of the cash on a still market,
\* sells again, and switches the facility off and on, over a few days.
BrokeDays == 4
BrokeClicks == 4
BrokeFacilities == {"oil"}
BrokeIds == {"gas"}
\* what is left of the opening cash after the unlock, at the opening price
BrokeLot(id, built) ==
  (INITIAL_CASH * Scale - UnlockCost(Commodity(built))) \div (Commodity(id).basePrice * Scale)
BrokeShocks == ConstShocks({RandDen \div 2})

NextBroke ==
  \/ gameState.day < BrokeDays /\ NoClick /\ Tick(BrokeShocks, {LowDraw}, {LowDraw}, {LowDraw}, {LowDraw})
  \/ \E id \in BrokeFacilities : Click(BrokeClicks) /\ handleUnlockFacility(id)
  \/ \E id \in BrokeFacilities : Click(BrokeClicks) /\ handleToggleProduction(id)
  \/ \E id \in BrokeIds : \E built \in BrokeFacilities : \E q \in {BrokeLot(id, built), 0 - BrokeLot(id, built)} :
       Click(BrokeClicks) /\ handleTrade(id, q)

SpecBroke == Init /\ [][NextBroke]_vars

\* The estate: on borrowed money the player builds two facilities, takes them up to
\* level EstateLevel and sells them, over a few days of a still market.  Upgrades are
\* bounded by the level, the other clicks counted.
EstateDays == 3
EstateClicks == 3
EstateLevel == 3
EstateIds == {"oil", "gas"}
EstateShocks == ConstShocks({RandDen \div 2})
BelowEstateLevel(id) ==
  \A i \in 1..Len(gameState.facilities) :
    gameState.facilities[i].commodityId = id => gameState.facilities[i].level < EstateLevel

NextEstate ==
  \/ gameState.day < EstateDays /\ NoClick /\ Tick(EstateShocks, {LowDraw}, {LowDraw}, {LowDraw}, {LowDraw})
  \/ Click(EstateClicks) /\ takeLoan(FactoryLoan)
  \/ \E id \in EstateIds : Click(EstateClicks) /\ handleUnlockFacility(id)
  \/ \E id \in EstateIds : BelowEstateLevel(id) /\ NoClick /\ handleUpgradeFacility(id)
  \/ \E id \in EstateIds : Click(EstateClicks) /\ handleSellFacility(id)

SpecEstate == Init /\ [][NextEstate]_vars

-----------------------------------------------------------------------------
(* Claims *)

\* a step of the scheduler: only the tick changes day, and every tick does
TickStep == gameState'.day # gameState.day

\* C1: in every reachable state every commodity's current price is at least a
\* tenth of its base price (hence positive), in both Apps, whatever events
\* were active on the way.
C1_PriceFloor ==
  \A i \in 1..Len(COMMODITIES) :
    /\ gameState.prices[COMMODITIES[i].id].currentPrice * 10 >= COMMODITIES[i].basePrice * Scale
    /\ gameState.prices[COMMODITIES[i].id].currentPrice > 0

\* C1 witness: a tick has left a price exactly on its floor, during a crash event on
\* its category, and the price a day earlier was above the floor.
C1_Witness ==
  \E i \in 1..Len(COMMODITIES) :
    LET c == COMMODITIES[i]
        p == gameState.prices[c.id]
    IN  /\ p.currentPrice * 10 = c.basePrice * Scale
        /\ Len(p.history) > 1
        /\ p.history[Len(p.history) - 1] > p.currentPrice
        /\ gameState.activeEvent # NoEvent
        /\ gameState.activeEvent.category = c.category
        /\ gameState.activeEvent.multiplier < 10

\* C2: every price history holds between 1 and 20 entries, the last of which is the
\* current price; a tick appends the new price and, once 20 are held, drops the oldest.
C2_HistoryWindow ==
  /\ [](\A id \in Ids :
          LET p == gameState.prices[id]
          IN  /\ Len(p.history) >= 1
              /\ Len(p.history) <= 20
              /\ p.history[Len(p.history)] = p.currentPrice)
  /\ [][TickStep =>
          \A id \in Ids :
            LET h == gameState.prices[id].history
                kept == IF Len(h) >= 20 THEN Tail(h) ELSE h
            IN  gameState'.prices[id].history = Append(kept, gameState'.prices[id].currentPrice)]_vars

\* C2 witness: more than 20 ticks have run, the window is full and has slid: the
\* initial price (the base price, never met again on a falling market) is gone.
C2_Witness ==
  /\ gameState.day > 21
  /\ \A id \in Ids : Len(gameState.prices[id].history) = 20
  /\ \A id \in Ids : gameState.prices[id].history[1] # Commodity(id).basePrice * Scale

\* C3: an active event always has 1 <= remainingDays <= duration; every tick taken
\* while it is active lowers remainingDays by exactly 1 and leaves the event
\* otherwise as it was, and the tick that would bring remainingDays to 0 removes it.
C3_EventCountdown ==
  /\ [](gameState.activeEvent # NoEvent =>
          /\ gameState.activeEvent.remainingDays >= 1
          /\ gameState.activeEvent.remainingDays <= gameState.activeEvent.duration)
  /\ [][TickStep /\ gameState.activeEvent # NoEvent =>
          IF gameState.activeEvent.remainingDays > 1
          THEN gameState'.activeEvent =
                 [gameState.activeEvent EXCEPT !.remainingDays = gameState.activeEvent.remainingDays - 1]
          ELSE gameState'.activeEvent = NoEvent]_vars

\* C3 witness: an event of the longest duration on its last day, i.e. counted down
\* six times and about to be removed.
C3_Witness ==
  /\ gameState.activeEvent # NoEvent
  /\ gameState.activeEvent.duration = 7
  /\ gameState.activeEvent.remainingDays = 1

\* the quantity of id held, taken from the inventory entry of that commodity
Held(id) ==
  LET entry == CHOOSE i \in 1..Len(gameState.inventory) : gameState.inventory[i].commodityId = id
  IN  gameState.inventory[entry].quantity

\* the price a trade on id is settled at
Quote(id) == gameState.prices[id].currentPrice

\* C4: with the game neither over nor paused, a buy the cash covers or a sale the
\* holding covers is carried out in full: cash falls by q*p, the holding of c grows by
\* q, |q*p| is added to the lifetime purchases and the cycle purchases (buy) or to the
\* lifetime sales and the cycle sales (sale), and nothing else changes.
C4_TradeAccepted ==
  [][\A id \in TradeIds : \A q \in TradeQuantities :
       ( /\ handleTrade(id, q)
         /\ ~isGameOver /\ ~isPaused
         /\ \/ q > 0 /\ gameState.cash >= q * Quote(id)
            \/ q < 0 /\ Held(id) >= 0 - q )
       =>
       ( /\ gameState'.cash = gameState.cash - q * Quote(id)
         /\ Len(gameState'.inventory) = Len(gameState.inventory)
         /\ \A i \in 1..Len(gameState.inventory) :
              /\ gameState'.inventory[i].commodityId = gameState.inventory[i].commodityId
              /\ gameState'.inventory[i].quantity =
                   gameState.inventory[i].quantity
                   + (IF gameState.inventory[i].commodityId = id THEN q ELSE 0)
         /\ gameState'.lifetime.totalMarketPurchases =
              gameState.lifetime.totalMarketPurchases + (IF q > 0 THEN q * Quote(id) ELSE 0)
         /\ gameState'.lifetime.totalSales =
              gameState.lifetime.totalSales + (IF q < 0 THEN (0 - q) * Quote(id) ELSE 0)
         /\ cyclePurchasesRef' = cyclePurchasesRef + (IF q > 0 THEN q * Quote(id) ELSE 0)
         /\ cycleSalesRef' = cycleSalesRef + (IF q < 0 THEN (0 - q) * Quote(id) ELSE 0)
         /\ \A f \in DOMAIN gameState.lifetime \ {"totalMarketPurchases", "totalSales"} :
              gameState'.lifetime[f] = gameState.lifetime[f]
         /\ \A f \in DOMAIN gameState \ {"cash", "inventory", "lifetime"} :
              gameState'[f] = gameState[f]
         /\ UNCHANGED << isGameOver, isPaused, repayAmount, cycleProductionRef >> )]_vars

\* C4 witness: a buy and then a sale have both been carried out after a tick moved the
\* price: both lifetime counters and both cycle counters are positive and differ.
C4_Witness ==
  /\ gameState.day > 1
  /\ gameState.lifetime.totalMarketPurchases > 0
  /\ gameState.lifetime.totalSales > 0
  /\ gameState.lifetime.totalSales # gameState.lifetime.totalMarketPurchases
  /\ cyclePurchasesRef = gameState.lifetime.totalMarketPurchases
  /\ cycleSalesRef = gameState.lifetime.totalSales
  /\ ~isGameOver

\* C5: a buy whose cost exceeds the cash, or a sale of more than is held, changes
\* nothing: the game state (cash, inventory, lifetime statistics and the rest) and the
\* cycle counters are as before.
C5_TradeRejected ==
  [][\A id \in TradeIds : \A q \in TradeQuantities :
       ( /\ handleTrade(id, q)
         /\ \/ q > 0 /\ q * Quote(id) > gameState.cash
            \/ q < 0 /\ 0 - q > Held(id) )
       =>
       UNCHANGED << gameState, isGameOver, cyclePurchasesRef, cycleSalesRef, cycleProductionRef >>]_vars

\* C5 witness: after earlier accepted trades left the lifetime and cycle counters
\* non-zero, the player, still able to act, holds nothing and cannot afford the large
\* lot: both the sale and the large buy offered next fail their precondition.
C5_Witness ==
  /\ ~isGameOver /\ ~isPaused
  /\ clicks < MaxClicks
  /\ cycleSalesRef > 0
  /\ gameState.lifetime.totalMarketPurchases > 0
  /\ \E id \in TradeIds :
       /\ Held(id) = 0
       /\ \E q \in TradeQuantities : q > 0 /\ q * Quote(id) > gameState.cash

\* C8: once isGameOver is true it stays true, and no tick is applied any more: the day,
\* the cycle position, the prices, the event, the tax schedule and the ledger, which
\* only the tick writes, stay as they are.
C8_GameOverIsFinal ==
  [][isGameOver =>
       /\ isGameOver'
       /\ ~TickStep
       /\ gameState'.cycleProgress = gameState.cycleProgress
       /\ gameState'.prices = gameState.prices
       /\ gameState'.activeEvent = gameState.activeEvent
       /\ gameState'.taxRate = gameState.taxRate
       /\ gameState'.nextTaxDay = gameState.nextTaxDay
       /\ gameState'.lastLedger = gameState.lastLedger
       /\ cycleProductionRef' = cycleProductionRef]_vars

\* C8 witness: the game is over, not paused, days remain to be played and the player
\* has acted since: the interval would fire here were it still scheduled.
C8_Witness ==
  /\ isGameOver
  /\ ~isPaused
  /\ gameState.day < MaxDay
  /\ clicks = MaxClicks

\* C9: once isGameOver is true no handler changes gameState.
C9_NoActionAfterGameOver ==
  [][isGameOver => gameState' = gameState]_vars

\* C10: while isGameOver is false the net equity is at or above the threshold
\* (cash + inventory + infrastructure - debt >= -1000 in the App with pause,
\* cash + inventory - debt >= 0 in the App without pause), and isGameOver becomes
\* true only in a state whose net equity is below the threshold.
C10_Equity ==
  gameState.cash + InventoryValueOf(gameState.inventory, gameState.prices)
  + (IF variant = "pause" THEN InfrastructureValueOf(gameState.facilities) ELSE 0)
  - gameState.debt

C10_Floor == IF variant = "pause" THEN (0 - 1000) * Scale ELSE 0

C10_Solvency ==
  /\ [](~isGameOver => C10_Equity >= C10_Floor)
  /\ [][~isGameOver /\ isGameOver' => C10_Equity' < C10_Floor']_vars

\* C10 witness: a tick has moved prices against a leveraged holding and the solvency
\* effect has ended the game; the equity is below the threshold.
C10_Witness ==
  /\ isGameOver
  /\ gameState.day > 1
  /\ gameState.debt > 0
  /\ C10_Equity < C10_Floor

\* the facilities of commodity id that complete a cycle on the tick taken with cash
\* postTaxCash left after the tax
Completing(id, postTaxCash) ==
  { i \in 1..Len(gameState.facilities) :
      /\ gameState.facilities[i].commodityId = id
      /\ gameState.facilities[i].isProducing
      /\ postTaxCash > 0
      /\ gameState.facilities[i].progress + 5 + 10 * gameState.facilities[i].level >= 100 }

\* C6: on a tick a producing facility, the cash after the tick's tax being positive,
\* advances by 5 + 10*level; below 100 the sum is the new progress and nothing is
\* credited, otherwise the new progress is the sum mod 100 and exactly one batch of
\* productionYield units is credited, also when the sum reaches 200.
C6_ProductionStep ==
  [][TickStep =>
       LET postTaxCash == gameState.cash
                          - (gameState'.lifetime.totalTaxesPaid - gameState.lifetime.totalTaxesPaid)
       IN  /\ Len(gameState'.facilities) = Len(gameState.facilities)
           /\ \A i \in 1..Len(gameState.facilities) :
                LET f == gameState.facilities[i]
                    sum == f.progress + 5 + 10 * f.level
                IN  f.isProducing /\ postTaxCash > 0 =>
                      /\ gameState'.facilities[i].commodityId = f.commodityId
                      /\ gameState'.facilities[i].level = f.level
                      /\ gameState'.facilities[i].progress = IF sum < 100 THEN sum ELSE sum % 100
           /\ \A id \in Ids :
                gameState'.inventory[CHOOSE k \in 1..Len(gameState.inventory) :
                                       gameState.inventory[k].commodityId = id].quantity
                  = Held(id) + Cardinality(Completing(id, postTaxCash))
                               * Commodity(id).productionYield]_vars

\* C6 witness: a facility ticked at level 9 from progress 0 (to 95, daily cost 29) and
\* then at level 10 (95 + 105 = 200, daily cost 41) holds progress 0 and has been
\* credited one batch of 50 units in all.
C6_Witness ==
  /\ Len(gameState.facilities) = 1
  /\ gameState.facilities[1].commodityId = "gas"
  /\ gameState.facilities[1].level = 10
  /\ gameState.facilities[1].progress = 0
  /\ gameState.lifetime.totalProductionCosts = (29 + 41) * Scale
  /\ Held("gas") = 50

\* C7: every facility's progress is at least 0 and below 100 in every reachable state.
C7_ProgressRange ==
  \A i \in 1..Len(gameState.facilities) :
    /\ gameState.facilities[i].progress >= 0
    /\ gameState.facilities[i].progress < 100

\* C7 witness: a facility of level 10, whose increment alone exceeds 100, has produced
\* (its production costs have been charged at level 10) and is still in production.
C7_Witness ==
  /\ \E i \in 1..Len(gameState.facilities) :
       /\ gameState.facilities[i].level >= 10
       /\ gameState.facilities[i].isProducing
       /\ gameState.facilities[i].progress = 5
  /\ gameState.lifetime.totalProductionCosts = 41 * Scale

C12_SingleLoan ==
  [][variant = "nopause" =>
       \A amount \in LoanMenu :
         takeLoan(amount) /\ gameState.debt > 0 =>
           gameState'.cash = gameState.cash /\ gameState'.debt = gameState.debt]_vars

\* C13: a repayment that is applied takes an amount r with 0 <= r <= min(cash, debt)
\* of the state it is applied to off both cash and debt, so neither becomes negative.
C13_RepayBounded ==
  [][handleRepay /\ gameState' # gameState =>
       /\ repayAmount >= 0
       /\ repayAmount <= gameState.cash
       /\ repayAmount <= gameState.debt
       /\ gameState'.cash = gameState.cash - repayAmount
       /\ gameState'.debt = gameState.debt - repayAmount
       /\ gameState'.cash >= 0
       /\ gameState'.debt >= 0]_vars

\* C14: debt >= 0 in every reachable state of either App.
C14_DebtNonNegative == gameState.debt >= 0

\* C14 witness: a loan that has borne interest has been repaid down to less than a
\* dollar, the most the slider allows.
C14_Witness ==
  /\ gameState.lifetime.totalInterestPaid > 0
  /\ gameState.debt < Scale
  /\ repayAmount = 0

\* C15: every tick sets debt' = debt + 0.015 * debt (nothing at zero debt) and adds the
\* same amount to lifetime.totalInterestPaid, so that over n ticks without loan or
\* repayment the debt is multiplied by 1.015^n (here to the 1/Scale of a dollar).
C15_Compounding ==
  [][TickStep =>
       /\ gameState'.debt = gameState.debt + (gameState.debt * 15) \div 1000
       /\ gameState'.lifetime.totalInterestPaid - gameState.lifetime.totalInterestPaid
            = gameState'.debt - gameState.debt]_vars

\* C15 witness: the smallest loan, taken on day 1 and left alone for three ticks, stands
\* at 5000 * 1.015^3 = 5228.391 and the interest paid at 228.391.
C15_Witness ==
  /\ gameState.day = 4
  /\ gameState.debt = 5228391
  /\ gameState.lifetime.totalInterestPaid = 228391

\* C16: the tick that brings cycleProgress from 9 back to 0 (every tenth tick from the
\* start) copies the cycle counters, this tick's production cost included, into
\* lastLedger and zeroes them; every other tick only adds its production cost to the
\* production counter; no other step touches lastLedger.
C16_LedgerRoll ==
  /\ [](gameState.cycleProgress = (gameState.day - 1) % 10)
  /\ [][LET cost == gameState'.lifetime.totalProductionCosts - gameState.lifetime.totalProductionCosts
        IN  IF ~TickStep THEN gameState'.lastLedger = gameState.lastLedger
            ELSE IF gameState.cycleProgress = 9
            THEN /\ gameState'.cycleProgress = 0
                 /\ gameState'.lastLedger =
                      [sales |-> cycleSalesRef,
                       purchases |-> cyclePurchasesRef,
                       productionCosts |-> cycleProductionRef + cost,
                       net |-> cycleSalesRef - cyclePurchasesRef - (cycleProductionRef + cost)]
                 /\ cycleSalesRef' = 0 /\ cyclePurchasesRef' = 0 /\ cycleProductionRef' = 0
            ELSE /\ gameState'.cycleProgress = gameState.cycleProgress + 1
                 /\ gameState'.lastLedger = gameState.lastLedger
                 /\ cycleSalesRef' = cycleSalesRef
                 /\ cyclePurchasesRef' = cyclePurchasesRef
                 /\ cycleProductionRef' = cycleProductionRef + cost]_vars

\* C16 witness: the second roll has just happened; the purchase and the sale of the
\* first cycle are not in the ledger any more, the production of the second cycle is.
C16_Witness ==
  /\ gameState.day = 21
  /\ gameState.cycleProgress = 0
  /\ gameState.lifetime.totalMarketPurchases > 0
  /\ gameState.lifetime.totalSales > 0
  /\ gameState.lastLedger.purchases = 0
  /\ gameState.lastLedger.sales = 0
  /\ gameState.lastLedger.productionCosts > 0
  /\ cycleProductionRef = 0

\* C17: no step lowers any of the lifetime counters.
C17_LifetimeMonotone ==
  [][\A f \in DOMAIN gameState.lifetime : gameState'.lifetime[f] >= gameState.lifetime[f]]_vars

\* the facilities held for commodity id
Plants(id) == { i \in 1..Len(gameState.facilities) : gameState.facilities[i].commodityId = id }

\* the effect of a successful unlock of id on the step taken
Unlocked(id) ==
  LET cost == Commodity(id).basePrice * 25 * Scale
  IN  /\ gameState'.cash = gameState.cash - cost
      /\ gameState'.facilities =
           Append(gameState.facilities,
                  [commodityId |-> id, level |-> 1, isProducing |-> TRUE, progress |-> 0])
      /\ gameState'.lifetime.totalConstruction = gameState.lifetime.totalConstruction + cost
      /\ \A f \in DOMAIN gameState.lifetime \ {"totalConstruction"} :
           gameState'.lifetime[f] = gameState.lifetime[f]
      /\ \A f \in DOMAIN gameState \ {"cash", "facilities", "lifetime"} :
           gameState'[f] = gameState[f]
      /\ UNCHANGED << isPaused, repayAmount, cyclePurchasesRef, cycleSalesRef, cycleProductionRef >>

\* C18 as stated: an unlock of c with cash >= c.basePrice * 25 and no facility for c
\* debits the cost, appends the facility {c, level 1, producing, progress 0}, books
\* the cost in lifetime.totalConstruction and changes nothing else.
C18_UnlockAlways ==
  [][\A id \in Ids :
       ( /\ handleUnlockFacility(id)
         /\ gameState.cash >= Commodity(id).basePrice * 25 * Scale
         /\ Plants(id) = {} )
       => Unlocked(id)]_vars

\* C18 amended: the same, for an unlock made while the game is not paused.
C18_Unlock ==
  [][\A id \in Ids :
       ( /\ handleUnlockFacility(id)
         /\ ~isPaused
         /\ gameState.cash >= Commodity(id).basePrice * 25 * Scale
         /\ Plants(id) = {} )
       => Unlocked(id)]_vars

\* C18 witness: the oil facility unlocked from the opening cash of 5000: cash 3000,
\* one facility of level 1, producing, progress 0, and 2000 booked as construction.
C18_Witness ==
  /\ clicks = 1
  /\ gameState.cash = 3000 * Scale
  /\ gameState.facilities = << [commodityId |-> "oil", level |-> 1, isProducing |-> TRUE, progress |-> 0] >>
  /\ gameState.lifetime.totalConstruction = 2000 * Scale

\* C19: an unlock with cash below the cost or with a facility already there, an upgrade
\* with no facility or with cash below the upgrade cost, and a sale of a facility that
\* does not exist each leave the game state exactly as it was.
C19_FacilityRejected ==
  [][\A id \in Ids :
       /\ ( /\ handleUnlockFacility(id)
            /\ \/ gameState.cash < Commodity(id).basePrice * 25 * Scale
               \/ Plants(id) # {} )
          => gameState' = gameState
       /\ ( /\ handleUpgradeFacility(id)
            /\ \/ Plants(id) = {}
               \/ \E i \in Plants(id) :
                    gameState.cash < UpgradeCostTable[id][gameState.facilities[i].level] * Scale )
          => gameState' = gameState
       /\ ( handleSellFacility(id) /\ Plants(id) = {} )
          => gameState' = gameState]_vars

\* C19 witness: a facility stands at level 1, the cash is below its upgrade cost and
\* the player is free to click: the upgrade and a second unlock offered next both fail.
C19_Witness ==
  /\ ~isPaused
  /\ clicks < MaxClicks
  /\ \E id \in FacilityIds :
       /\ \E i \in Plants(id) : gameState.facilities[i].level = 1
       /\ gameState.cash < UpgradeCostTable[id][1] * Scale

\* C20: in the App with pause, while isPaused is true no step changes the game state
\* or the cycle counters, and pressing the pause button changes no field of the game state.
C20_PauseFrame ==
  [][variant = "pause" =>
       /\ isPaused =>
            /\ gameState' = gameState
            /\ UNCHANGED << isGameOver, cyclePurchasesRef, cycleSalesRef, cycleProductionRef >>
       /\ isPaused' # isPaused => gameState' = gameState]_vars

\* C20 witness: the game was paused after the player had built, days remain to be
\* played, and a further click has been made while paused.
C20_Witness ==
  /\ isPaused
  /\ gameState.facilities # << >>
  /\ gameState.day < MaxDay
  /\ clicks = MaxClicks

\* the facilities of a list that belong to commodity id
PlantsIn(facilities, id) == { i \in 1..Len(facilities) : facilities[i].commodityId = id }

\* the one facility of a list that belongs to commodity id
PlantOf(facilities, id) == facilities[CHOOSE i \in PlantsIn(facilities, id) : TRUE]

\* C21: there is at most one facility per commodity, each of an integer level >= 1; a
\* level changes only by +1, through an upgrade the cash covers, and never by a tick;
\* a sale leaves the commodity without a facility, and a facility that appears (the
\* first unlock or one after a sale) starts at level 1 with progress 0.
C21_FacilityLifecycle ==
  /\ [](\A id \in Ids :
          /\ Cardinality(PlantsIn(gameState.facilities, id)) <= 1
          /\ \A i \in PlantsIn(gameState.facilities, id) :
               gameState.facilities[i].level \in Nat \ {0})
  /\ [][\A id \in Ids :
          LET before == PlantsIn(gameState.facilities, id)
              after == PlantsIn(gameState'.facilities, id)
          IN  /\ before # {} /\ after # {} =>
                   LET old == PlantOf(gameState.facilities, id).level
                       new == PlantOf(gameState'.facilities, id).level
                   IN  \/ new = old
                       \/ /\ new = old + 1
                          /\ ~TickStep
                          /\ handleUpgradeFacility(id)
                          /\ gameState.cash >= UpgradeCostTable[id][old] * Scale
              /\ handleSellFacility(id) /\ ~isPaused => after = {}
              /\ before = {} /\ after # {} =>
                   /\ PlantOf(gameState'.facilities, id).level = 1
                   /\ PlantOf(gameState'.facilities, id).progress = 0]_vars

\* C21 witness: the oil facility has been unlocked, sold and unlocked again: it stands
\* at level 1 with progress 0, and the cash is the opening 5000 less two unlocks plus
\* one refund.
C21_Witness ==
  /\ clicks = 3
  /\ gameState.day = 1
  /\ gameState.cash = (INITIAL_CASH - 2 * 2000 + 1400) * Scale
  /\ gameState.lifetime.totalConstruction = 2 * 2000 * Scale
  /\ gameState.facilities = << [commodityId |-> "oil", level |-> 1, isProducing |-> TRUE, progress |-> 0] >>

\* C22: the inventory holds exactly one entry per catalog commodity, each with an
\* integer quantity >= 0; a tick never lowers a quantity, an accepted purchase raises
\* one, and an accepted sale lowers one by no more than was held.
C22_Inventory ==
  /\ [](/\ \A id \in Ids :
             Cardinality({ i \in 1..Len(gameState.inventory) : gameState.inventory[i].commodityId = id }) = 1
        /\ \A i \in 1..Len(gameState.inventory) :
             /\ gameState.inventory[i].commodityId \in Ids
             /\ gameState.inventory[i].quantity \in Nat)
  /\ [][\A i \in 1..Len(gameState.inventory) :
          LET old == gameState.inventory[i].quantity
              new == gameState'.inventory[i].quantity
          IN  /\ Len(gameState'.inventory) = Len(gameState.inventory)
              /\ gameState'.inventory[i].commodityId = gameState.inventory[i].commodityId
              /\ TickStep => new >= old
              /\ new < old => /\ handleTrade(gameState.inventory[i].commodityId, new - old)
                              /\ new >= 0]_vars

\* C22 witness: the whole holding bought on credit has been sold again and the facility
\* built from the proceeds has delivered its first batch: the inventory holds exactly
\* one yield of gas.
C22_Witness ==
  /\ gameState.lifetime.totalMarketPurchases > 0
  /\ gameState.lifetime.totalSales > 0
  /\ gameState.lifetime.totalProductionCosts > 0
  /\ Held("gas") = Commodity("gas").productionYield

\* C23: in the App with pause every tick prices each commodity with the event held by
\* the state the tick returns: the prices after the tick are those the price model
\* yields from the prices before it, the event after it, and some vector of draws.
C23_PostEventPricing ==
  [][variant = "pause" /\ TickStep =>
       \E shocks \in MarketShocks :
         gameState'.prices = NextPrices(gameState.prices, gameState'.activeEvent, shocks)]_vars

\* C24: a tick bills tax exactly when the day it leads to is a multiple of 30, and then
\* once: nextTaxDay moves by 30 on that tick and on no other step, totalTaxesPaid
\* changes on no other step, and always day < nextTaxDay <= day + 30.
C24_TaxCalendar ==
  /\ [](gameState.day < gameState.nextTaxDay /\ gameState.nextTaxDay <= gameState.day + 30)
  /\ [][IF TickStep /\ gameState'.day % 30 = 0
        THEN gameState'.nextTaxDay = gameState.nextTaxDay + 30
        ELSE /\ gameState'.nextTaxDay = gameState.nextTaxDay
             /\ gameState'.lifetime.totalTaxesPaid = gameState.lifetime.totalTaxesPaid]_vars

\* C24 witness: the second tax day has been billed, after the player had cash to tax.
C24_Witness ==
  /\ gameState.day = 60
  /\ gameState.nextTaxDay = 90
  /\ gameState.lifetime.totalTaxesPaid > 0
  /\ clicks > 0

\* C25: in the App with pause the bill of a tax tick is max(0, net worth * rate), with
\* the net worth made of the cash, the inventory and the facilities held before the
\* tick, the inventory at the prices the tick has just computed, less the debt before
\* interest, and the rate in force before the tick.  The cash falls by the bill (and by
\* the day's production cost, which the same tick charges), totalTaxesPaid rises by the
\* bill, and the bill is never negative.
C25_TaxBill ==
  [][variant = "pause" /\ TickStep /\ gameState'.day % 30 = 0 =>
       LET worth == gameState.cash
                    + InventoryValueOf(gameState.inventory, gameState'.prices)
                    + InfrastructureValueOf(gameState.facilities)
                    - gameState.debt
           due == MulDiv(worth, gameState.taxRate, RateDen)
           bill == IF due > 0 THEN due ELSE 0
           cost == gameState'.lifetime.totalProductionCosts - gameState.lifetime.totalProductionCosts
       IN  /\ gameState'.cash = gameState.cash - bill - cost
           /\ gameState'.lifetime.totalTaxesPaid = gameState.lifetime.totalTaxesPaid + bill
           /\ bill >= 0]_vars

\* C25 witness: the first tax day billed in the App with pause on a player who held
\* gas, an oil facility and a debt.
C25_Witness ==
  /\ variant = "pause"
  /\ gameState.day = 30
  /\ Held("gas") > 0
  /\ gameState.facilities # << >>
  /\ gameState.debt > 0
  /\ gameState.lifetime.totalTaxesPaid > 0

\* C26: in both Apps the tax rate always lies between 0.10 and 0.35, and it changes
\* only on a tick that bills tax: every other tick and every player action keep it.
C26_TaxRateBand ==
  /\ [](/\ gameState.taxRate * 10 >= RateDen
        /\ gameState.taxRate * 100 <= 35 * RateDen)
  /\ [][~(TickStep /\ gameState'.day % 30 = 0) => gameState'.taxRate = gameState.taxRate]_vars

\* C26 witness: after the first tax day of a player who had acted on its eve, the rate
\* drawn stands in the top hundredth of the band.
C26_Witness ==
  /\ gameState.day > 30
  /\ clicks > 0
  /\ gameState.taxRate # INITIAL_TAX_RATE
  /\ gameState.taxRate * 100 > 34 * RateDen

\* the step puts in place an event that is neither the one held before nor that one
\* a day older
Activated ==
  /\ gameState'.activeEvent # NoEvent
  /\ gameState'.activeEvent # gameState.activeEvent
  /\ \/ gameState.activeEvent = NoEvent
     \/ gameState'.activeEvent #
          [gameState.activeEvent EXCEPT !.remainingDays = gameState.activeEvent.remainingDays - 1]

\* C27: an event is activated only by a tick that ends a 10-day cycle (cycleProgress 9
\* before it), with no event left after the countdown of that tick, and on a draw above
\* 0.3; it is one of the 7 templates of the pool (multiplier from 0.4 to 2.3, one of
\* the four categories or ALL), of a whole duration from 3 to 7 days, with all of its
\* days remaining.  On any other tick no event appears where there was none, and no
\* player action changes activeEvent.
C27_EventTrigger ==
  [][/\ Activated =>
          /\ TickStep
          /\ gameState.cycleProgress = 9
          /\ gameState.activeEvent = NoEvent \/ gameState.activeEvent.remainingDays <= 1
          /\ Len(EVENTS_POOL) = 7
          /\ \E k \in 1..Len(EVENTS_POOL) :
               /\ gameState'.activeEvent.name = EVENTS_POOL[k].name
               /\ gameState'.activeEvent.category = EVENTS_POOL[k].category
               /\ gameState'.activeEvent.multiplier = EVENTS_POOL[k].multiplier
          /\ gameState'.activeEvent.multiplier \in 4..23
          /\ gameState'.activeEvent.category \in {"Energy", "Metal", "Agriculture", "Livestock", "ALL"}
          /\ gameState'.activeEvent.duration \in 3..7
          /\ gameState'.activeEvent.remainingDays = gameState'.activeEvent.duration
     /\ Tick(MarketShocks, {LowDraw}, CalmDraws, PoolDraws, DurationDraws) => ~Activated
     /\ TickStep /\ gameState.cycleProgress # 9 /\ gameState.activeEvent = NoEvent
          => gameState'.activeEvent = NoEvent
     /\ ~TickStep => gameState'.activeEvent = gameState.activeEvent]_vars

\* C27 witness: the last template of the pool runs with the longest duration, one day
\* of it gone, and the player has acted since it was activated on day 11.
C27_Witness ==
  /\ gameState.day = 12
  /\ clicks = NewsClicks
  /\ gameState.activeEvent # NoEvent
  /\ gameState.activeEvent.name = EVENTS_POOL[Len(EVENTS_POOL)].name
  /\ gameState.activeEvent.duration = 7
  /\ gameState.activeEvent.remainingDays = 6

\* C28: the event lifecycle is None -> Active -> None.  No step taken while an event is
\* active activates another: the tick on which an event expires never triggers a new
\* one, so a state without event lies between any two events.
C28_EventLifecycle ==
  [][gameState.activeEvent # NoEvent => ~Activated]_vars

\* C28 witness: a second event has just been activated, on day 21; the first one,
\* since expired, had raised a price on a market that otherwise only falls.
C28_Witness ==
  /\ gameState.day = 21
  /\ gameState.activeEvent # NoEvent
  /\ gameState.activeEvent.remainingDays = gameState.activeEvent.duration
  /\ \E id \in Ids :
       LET h == gameState.prices[id].history
       IN  \E k \in 1..(Len(h) - 2) : h[k + 1] > h[k]

\* C29: on a tick whose cash after the tax deduction of that tick is <= 0, every
\* facility ends the tick not producing and otherwise as it was (no progress accrued),
\* the tick books no production cost, and the inventory is credited nothing.
C29_InsolvencyPause ==
  [][TickStep =>
       LET bill == gameState'.lifetime.totalTaxesPaid - gameState.lifetime.totalTaxesPaid
       IN  gameState.cash - bill <= 0 =>
             /\ Len(gameState'.facilities) = Len(gameState.facilities)
             /\ \A i \in 1..Len(gameState.facilities) :
                  /\ ~gameState'.facilities[i].isProducing
                  /\ gameState'.facilities[i] = [gameState.facilities[i] EXCEPT !.isProducing = FALSE]
             /\ gameState'.lifetime.totalProductionCosts = gameState.lifetime.totalProductionCosts
             /\ gameState'.cash = IF variant = "pause" THEN gameState.cash - bill
                                  ELSE IF gameState.cash - bill > 0 THEN gameState.cash - bill ELSE 0
             /\ gameState'.inventory = gameState.inventory]_vars

\* C29 witness: in the App with pause the first tax bill has exceeded the cash of a
\* player holding gas and a producing oil facility built the day before: the cash is
\* negative, the facility stopped with no progress, and no production cost was booked.
C29_Witness ==
  /\ variant = "pause"
  /\ gameState.day = 30
  /\ gameState.cash < 0
  /\ gameState.lifetime.totalTaxesPaid > 0
  /\ gameState.lifetime.totalProductionCosts = 0
  /\ gameState.facilities = << [commodityId |-> "oil", level |-> 1, isProducing |-> FALSE, progress |-> 0] >>

\* C30: no tick turns isProducing from false to true, whatever the cash: a facility
\* that is not producing goes through a tick unchanged (same progress, no cost booked
\* for it), and a tick whose cash after tax is > 0 leaves every isProducing flag as it
\* was; only toggleProduction sets a flag to true.
C30_NoAutoResume ==
  [][/\ TickStep =>
          /\ Len(gameState'.facilities) = Len(gameState.facilities)
          /\ \A i \in 1..Len(gameState.facilities) :
               /\ ~gameState.facilities[i].isProducing =>
                    gameState'.facilities[i] = gameState.facilities[i]
               /\ gameState.cash - (gameState'.lifetime.totalTaxesPaid - gameState.lifetime.totalTaxesPaid) > 0 =>
                    gameState'.facilities[i].isProducing = gameState.facilities[i].isProducing
          /\ (\A i \in 1..Len(gameState.facilities) : ~gameState.facilities[i].isProducing) =>
               gameState'.lifetime.totalProductionCosts = gameState.lifetime.totalProductionCosts
     /\ \A id \in Ids :
          ( /\ PlantsIn(gameState.facilities, id) # {}
            /\ PlantsIn(gameState'.facilities, id) # {}
            /\ ~PlantOf(gameState.facilities, id).isProducing
            /\ PlantOf(gameState'.facilities, id).isProducing )
          => handleToggleProduction(id)]_vars

\* C30 witness: a facility stopped for want of cash on the first tick is still
\* stopped, with no progress and no cost booked, after the player has sold the gas and
\* a second tick has run with cash in hand.
C30_Witness ==
  /\ gameState.day = 3
  /\ gameState.cash > 0
  /\ gameState.lifetime.totalSales > 0
  /\ gameState.lifetime.totalProductionCosts = 0
  /\ gameState.facilities = << [commodityId |-> "oil", level |-> 1, isProducing |-> FALSE, progress |-> 0] >>
  /\ clicks = 3

RECURSIVE Pow(_, _)
Pow(b, n) == IF n = 0 THEN 1 ELSE b * Pow(b, n - 1)

\* floor(productionCost * 1.4^(level-1)), in whole dollars
ExactDailyCost(id, level) == (Commodity(id).productionCost * Pow(7, level - 1)) \div Pow(5, level - 1)

RECURSIVE ExactPayroll(_, _)
\* the sum of the exact daily costs of the producing facilities from index i on
ExactPayroll(facilities, i) ==
  IF i > Len(facilities) THEN 0
  ELSE (IF facilities[i].isProducing
        THEN ExactDailyCost(facilities[i].commodityId, facilities[i].level) * Scale
        ELSE 0)
       + ExactPayroll(facilities, i + 1)

\* C31: in the App with pause every tick returns cash' = cash - taxBill - S, with S the
\* sum of floor(productionCost * 1.4^(level-1)) over the facilities producing while the
\* cash after tax is > 0 (0 when it is not); S is debited once, whatever the cash left,
\* and lifetime.totalProductionCosts and the cycle production counter grow by S.
C31_ProductionDebit ==
  [][variant = "pause" /\ TickStep =>
       LET bill == gameState'.lifetime.totalTaxesPaid - gameState.lifetime.totalTaxesPaid
           S == IF gameState.cash - bill > 0 THEN ExactPayroll(gameState.facilities, 1) ELSE 0
       IN  /\ gameState'.cash = gameState.cash - bill - S
           /\ gameState'.lifetime.totalProductionCosts = gameState.lifetime.totalProductionCosts + S
           /\ IF gameState.cycleProgress = 9
              THEN gameState'.lastLedger.productionCosts = cycleProductionRef + S
              ELSE cycleProductionRef' = cycleProductionRef + S]_vars

\* C32: in the App without pause every tick debits the production cost from the cash
\* exactly once: cash' = cash - taxBill - S, S being what the same tick adds to
\* lifetime.totalProductionCosts and to the cycle production counter.
C32_ProductionDebitOnce ==
  [][variant = "nopause" /\ TickStep =>
       LET bill == gameState'.lifetime.totalTaxesPaid - gameState.lifetime.totalTaxesPaid
           S == gameState'.lifetime.totalProductionCosts - gameState.lifetime.totalProductionCosts
       IN  /\ gameState'.cash = gameState.cash - bill - S
           /\ IF gameState.cycleProgress = 9
              THEN gameState'.lastLedger.productionCosts = cycleProductionRef + S
              ELSE cycleProductionRef' = cycleProductionRef + S]_vars

\* floor(basePrice * 25 * 1.8^level), in whole dollars
ExactUpgradeCost(id, level) == (Commodity(id).basePrice * 25 * Pow(9, level)) \div Pow(5, level)

\* C33: an upgrade of a facility at level L made with cash >= floor(basePrice*25*1.8^L),
\* the game not paused, takes exactly that cost from the cash, brings the facility to
\* level L+1, adds the cost to lifetime.totalUpgrades, and changes nothing else: not the
\* progress or the isProducing flag of that facility, no other facility, no other
\* lifetime counter, and no other field of the game state.
C33_UpgradeFrame ==
  [][\A id \in Ids :
       ( /\ handleUpgradeFacility(id)
         /\ ~isPaused
         /\ PlantsIn(gameState.facilities, id) # {}
         /\ gameState.cash >= ExactUpgradeCost(id, PlantOf(gameState.facilities, id).level) * Scale )
       => LET cost == ExactUpgradeCost(id, PlantOf(gameState.facilities, id).level) * Scale
          IN  /\ gameState'.cash = gameState.cash - cost
              /\ Len(gameState'.facilities) = Len(gameState.facilities)
              /\ \A i \in 1..Len(gameState.facilities) :
                   gameState'.facilities[i] =
                     IF gameState.facilities[i].commodityId = id
                     THEN [gameState.facilities[i] EXCEPT !.level = gameState.facilities[i].level + 1]
                     ELSE gameState.facilities[i]
              /\ gameState'.lifetime.totalUpgrades = gameState.lifetime.totalUpgrades + cost
              /\ \A f \in DOMAIN gameState.lifetime \ {"totalUpgrades"} :
                   gameState'.lifetime[f] = gameState.lifetime[f]
              /\ \A f \in DOMAIN gameState \ {"cash", "facilities", "lifetime"} :
                   gameState'[f] = gameState[f]
              /\ UNCHANGED << cyclePurchasesRef, cycleSalesRef, cycleProductionRef >>]_vars

\* C33 witness: next to a gas facility, the oil facility stands at level 2 with the
\* progress of its one day at level 1: it was upgraded, for 3600, after that tick.
C33_Witness ==
  /\ gameState.day = 2
  /\ gameState.lifetime.totalUpgrades = 3600 * Scale
  /\ \E i, j \in 1..Len(gameState.facilities) :
       /\ gameState.facilities[i] = [commodityId |-> "oil", level |-> 2, isProducing |-> TRUE, progress |-> 15]
       /\ gameState.facilities[j].commodityId = "gas"

RECURSIVE ExactInvested(_, _)
\* the unlock cost plus the upgrade costs paid on the way to the level, in whole dollars
ExactInvested(id, level) ==
  IF level <= 1 THEN Commodity(id).basePrice * 25
  ELSE ExactInvested(id, level - 1) + ExactUpgradeCost(id, level - 1)

\* C34: the sale of a facility credits the cash with floor(0.7 * totalInvested) and
\* removes the facility, totalInvested being what was debited for it since its unlock
\* (the unlock cost and every upgrade cost paid up to its level); no lifetime counter
\* changes.  Where the facility is the only one ever built, what was debited is
\* lifetime.totalConstruction + lifetime.totalUpgrades.
C34_SellRefund ==
  [][\A id \in Ids :
       ( /\ handleSellFacility(id)
         /\ ~isPaused
         /\ PlantsIn(gameState.facilities, id) # {} )
       => LET level == PlantOf(gameState.facilities, id).level
              totalInvested == ExactInvested(id, level)
          IN  /\ gameState'.cash = gameState.cash + ((7 * totalInvested) \div 10) * Scale
              /\ PlantsIn(gameState'.facilities, id) = {}
              /\ Len(gameState'.facilities) = Len(gameState.facilities) - 1
              /\ gameState'.lifetime = gameState.lifetime
              /\ ( /\ Len(gameState.facilities) = 1
                   /\ gameState.lifetime.totalConstruction = Commodity(id).basePrice * 25 * Scale )
                 => totalInvested * Scale
                      = gameState.lifetime.totalConstruction + gameState.lifetime.totalUpgrades]_vars

\* C35: at each ledger roll the sales, purchases and production costs of lastLedger are
\* the growth of lifetime.totalSales, totalMarketPurchases and totalProductionCosts
\* since the roll before (since the start for the first roll), the production cost of
\* the rolling tick included, and net = sales - purchases - productionCosts.  Stated for
\* the first two rolls: at the second, the growth is the lifetime total less the ledger
\* of the first.
C35_LedgerWindow ==
  [][TickStep /\ gameState.cycleProgress = 9 /\ gameState'.day <= 21 =>
       LET before == IF gameState'.day = 11
                     THEN [sales |-> 0, purchases |-> 0, productionCosts |-> 0]
                     ELSE gameState.lastLedger
       IN  /\ gameState'.lastLedger.sales = gameState'.lifetime.totalSales - before.sales
           /\ gameState'.lastLedger.purchases =
                gameState'.lifetime.totalMarketPurchases - before.purchases
           /\ gameState'.lastLedger.productionCosts =
                gameState'.lifetime.totalProductionCosts - before.productionCosts
           /\ gameState'.lastLedger.net =
                gameState'.lastLedger.sales - gameState'.lastLedger.purchases
                - gameState'.lastLedger.productionCosts]_vars

\* C35 witness: the second roll, on day 21, closes a window with a sale and production
\* costs but no purchase, the purchase having been made, and counted, in the first.
C35_Witness ==
  /\ gameState.day = 21
  /\ gameState.lifetime.totalMarketPurchases > 0
  /\ gameState.lastLedger.purchases = 0
  /\ gameState.lastLedger.sales = gameState.lifetime.totalSales
  /\ gameState.lastLedger.sales > 0
  /\ gameState.lastLedger.productionCosts > 0
  /\ gameState.lastLedger.productionCosts < gameState.lifetime.totalProductionCosts

\* C36: cycleProgress always lies in 0..9 and equals (day - 1) mod 10; a tick raises
\* day by exactly 1 and cycleProgress by 1 modulo 10, and no other step changes either.
C36_Calendar ==
  /\ [](/\ gameState.cycleProgress \in 0..9
        /\ gameState.cycleProgress = (gameState.day - 1) % 10)
  /\ [][IF TickStep
        THEN /\ gameState'.day = gameState.day + 1
             /\ gameState'.cycleProgress = (gameState.cycleProgress + 1) % 10
        ELSE gameState'.cycleProgress = gameState.cycleProgress]_vars

\* C36 witness: the cycle has wrapped twice, with every click of the player made on
\* the way.
C36_Witness ==
  /\ gameState.day = 21
  /\ gameState.cycleProgress = 0
  /\ clicks = LedgerClicks
  /\ gameState.facilities # << >>

\* C37: while an event is active, remainingDays + cycleProgress = duration, with
\* 1 <= remainingDays <= duration <= 7; so no event is active once cycleProgress has
\* reached 7, and in particular none at the start of a tick that completes a cycle:
\* the trigger is never held back by an event still running.
C37_EventPhase ==
  /\ gameState.activeEvent # NoEvent =>
       /\ gameState.activeEvent.remainingDays + gameState.cycleProgress = gameState.activeEvent.duration
       /\ 1 <= gameState.activeEvent.remainingDays
       /\ gameState.activeEvent.remainingDays <= gameState.activeEvent.duration
       /\ gameState.activeEvent.duration <= 7
  /\ gameState.cycleProgress >= 7 => gameState.activeEvent = NoEvent

\* C37 witness: an event of the second cycle, of the longest duration, on its last day.
C37_Witness ==
  /\ gameState.day = 27
  /\ gameState.cycleProgress = 6
  /\ gameState.activeEvent # NoEvent
  /\ gameState.activeEvent.remainingDays = 1

\* lifetimeNet = totalSales - lifetimeCosts
LifetimeNetOf(gs) ==
  gs.lifetime.totalSales
  - ( gs.lifetime.totalMarketPurchases + gs.lifetime.totalProductionCosts
      + gs.lifetime.totalConstruction + gs.lifetime.totalUpgrades
      + gs.lifetime.totalInterestPaid + gs.lifetime.totalTaxesPaid )

\* C38: in the App with pause an accepted unlock or upgrade leaves netEquity as it was;
\* the sale of a facility lowers netEquity by exactly
\* totalInvested - floor(0.7 * totalInvested); and while no facility has been sold (no
\* refund has entered the cash: cash - debt = INITIAL_CASH + lifetimeNet),
\* infrastructureValue = lifetime.totalConstruction + lifetime.totalUpgrades.
C38_EquityOfBuilding ==
  /\ [](variant = "pause" /\ gameState.cash - gameState.debt = INITIAL_CASH * Scale + LifetimeNetOf(gameState)
          => infrastructureValue = gameState.lifetime.totalConstruction + gameState.lifetime.totalUpgrades)
  /\ [][variant = "pause" /\ ~isPaused =>
          \A id \in Ids :
            /\ (handleUnlockFacility(id) \/ handleUpgradeFacility(id))
                 => NetEquityOf(gameState') = NetEquityOf(gameState)
            /\ handleSellFacility(id) /\ PlantsIn(gameState.facilities, id) # {}
                 => LET totalInvested == ExactInvested(id, PlantOf(gameState.facilities, id).level)
                    IN  NetEquityOf(gameState) - NetEquityOf(gameState')
                          = (totalInvested - (7 * totalInvested) \div 10) * Scale]_vars

\* the part of cash - debt that the opening cash and the lifetime counters do not explain
Unaccounted(gs) == gs.cash - gs.debt - INITIAL_CASH * Scale - LifetimeNetOf(gs)

\* C39: in the App with pause cash - debt = INITIAL_CASH + lifetimeNet + the refunds of
\* the facilities sold.  The difference is 0 at the start, is never negative, grows by
\* the refund on the sale of a facility and is left as it is by every other step: tick,
\* trade, unlock, upgrade, toggle, loan, repayment, pause.
C39_CashAccounting ==
  /\ [](variant = "pause" => Unaccounted(gameState) >= 0)
  /\ [][variant = "pause" =>
          IF \E id \in Ids : /\ handleSellFacility(id)
                             /\ ~isPaused
                             /\ PlantsIn(gameState.facilities, id) # {}
          THEN /\ Unaccounted(gameState') - Unaccounted(gameState) = gameState'.cash - gameState.cash
               /\ gameState'.cash > gameState.cash
          ELSE Unaccounted(gameState') = Unaccounted(gameState)]_vars

\* C39 witness: in the App with pause a player in debt, with a facility that has
\* produced for a day and interest charged, holds exactly the cash the counters explain.
C39_Witness ==
  /\ variant = "pause"
  /\ gameState.day = 2
  /\ gameState.debt > 0
  /\ gameState.facilities # << >>
  /\ gameState.lifetime.totalProductionCosts > 0
  /\ gameState.lifetime.totalInterestPaid > 0
  /\ gameState.lifetime.totalConstruction > 0
  /\ Unaccounted(gameState) = 0

\* C40: day, cycleProgress, every price and price history, activeEvent, taxRate,
\* nextTaxDay and lastLedger are changed by ticks only: every step that is not a tick
\* (a trade, an unlock, an upgrade, a sale of a facility, a toggle, a loan, a repayment,
\* accepted or not, the slider, the pause button) leaves them all as they were.
C40_TickOwnedFields ==
  [][~TickStep =>
       /\ gameState'.day = gameState.day
       /\ gameState'.cycleProgress = gameState.cycleProgress
       /\ \A id \in Ids :
            /\ gameState'.prices[id].currentPrice = gameState.prices[id].currentPrice
            /\ gameState'.prices[id].history = gameState.prices[id].history
       /\ gameState'.activeEvent = gameState.activeEvent
       /\ gameState'.taxRate = gameState.taxRate
       /\ gameState'.nextTaxDay = gameState.nextTaxDay
       /\ gameState'.lastLedger = gameState.lastLedger]_vars

\* C40 witness: after a tick the player has bought, borrowed and built: the prices
\* are those of day 2, one day of history behind them, and nothing else has moved.
C40_Witness ==
  /\ gameState.day = 2
  /\ clicks = MaxClicks
  /\ Held("gas") > 0
  /\ gameState.debt > 0
  /\ gameState.lifetime.totalInterestPaid = 0
  /\ gameState.facilities # << >>
  /\ \A id \in Ids : Len(gameState.prices[id].history) = 2

====
